---- MODULE Spec2Model ----
(***************************************************************************)
(* Model of ianic/xnet: the io_uring TCP layer (aio), the WebSocket frame  *)
(* codec and the asynchronous and synchronous WebSocket connection         *)
(* drivers (ws).                                                           *)
(*                                                                         *)
(* The module holds several specifications over one set of variables:      *)
(*   Spec / FairSpec  the TCP listener and its accepted connections        *)
(*   SpecAsync        AsyncConn fed byte chunks                            *)
(*   SpecFrames       both WebSocket drivers fed parsed frames             *)
(*   SpecCodec        Frame.encode followed by newFrame                    *)
(*   SpecParse        newFrame over wire bytes, whole and cut short        *)
(*   SpecWritev       one SendBuffers call                                 *)
(*   SpecRun/FairRun  Loop.Run with a listener and a dialed connection     *)
(*   SpecRing         Loop.prepare, the callback registry and completions  *)
(* A specification keeps the variables of the other parts at their idle    *)
(* values.                                                                 *)
(***************************************************************************)
EXTENDS Integers, Sequences, FiniteSets, TLC

VARIABLES
    \* ---- aio: listener, connections, kernel ----
    lsn,        \* TcpListener: accept operation, cancel operation, conns
    conn,       \* ConnIds -> TcpConn and the kernel operations in flight on its fd
    ring,       \* provided buffers the ring holds
    hlog,       \* the connection and the steps of the handler that ran last, in order
    loop,       \* Loop: the context, how far Run is, listeners, connections, the Dial
    rg,         \* Loop: submission queue, pending operations, callbacks, completions
    wv,         \* one SendBuffers call: its buffers, the bytes written, the outcome
    \* ---- ws: AsyncConn fed chunks ----
    ac,         \* AsyncConn under test (frameState, messageState, observed calls)
    ref,        \* a second AsyncConn that is fed the whole buffer in one call
    todo,       \* chunks still to deliver to ac
    whole,      \* the buffer the chunks were cut from
    mode,       \* how the buffer was cut: "whole", "split", "bytes"
    \* ---- ws: drivers fed frames ----
    ams,        \* async driver: messageState and observed calls
    sst,        \* sync driver: locals of Conn.read and observed calls
    fseq,       \* fragment kind and verdict of the non-control frames fed so far
    lastFrame,  \* the frame fed last, to which driver, and the message state before it
    fr,         \* sync Conn: its FrameReader (bufioBytesReader over the net.Conn)
    peer,       \* what the peer sends on the net.Conn, and whether it takes writes
    \* ---- ws: codec ----
    cF,         \* frame to encode
    cEnc,       \* Frame.encode output, header ++ payload
    cDec,       \* newFrame result on cEnc
    cStage,     \* "built", "encoded", "parsed"
    cIn,        \* how the wire bytes of SpecParse were built
    \* ---- seb: event writer ----
    ew          \* writer: buf, head, tail, err

aioVars == <<lsn, conn, ring, hlog, loop, rg, wv>>
asyncVars == <<ac, ref, todo, whole, mode>>
framesVars == <<ams, sst, fseq, lastFrame, fr, peer>>
codecVars == <<cF, cEnc, cDec, cStage, cIn>>
sebVars == <<ew>>
vars == <<lsn, conn, ring, hlog, loop, rg, wv, ac, ref, todo, whole, mode, ams, sst, fseq, lastFrame,
          fr, peer, cF, cEnc, cDec, cStage, cIn, ew>>

(***************************************************************************)
(* Frame codec (ws/frame.go)                                               *)
(***************************************************************************)

\* OpCode constants
Continuation == 0
Text == 1
Binary == 2
Close == 8
Ping == 9
Pong == 10
None == 255

\* header masks
finMask == 128
rsv1Mask == 64
rsv2Mask == 32
rsv3Mask == 16
defaultCloseCode == 1000

\* a & mask != 0 for a single-bit mask
HasBit(a, mask) == (a \div mask) % 2 = 1

RECURSIVE XorBits(_, _, _)
XorBits(a, b, n) ==
    IF n = 0 THEN 0
    ELSE (((a % 2) + (b % 2)) % 2) + (2 * XorBits(a \div 2, b \div 2, n - 1))

\* c ^ m on bytes
Xor(a, b) == XorBits(a, b, 8)

\* maskUnmask: buf[i] = buf[i] ^ mask[i%4] (i from 0)
maskUnmask(mask, buf) ==
    [i \in 1..Len(buf) |-> Xor(buf[i], mask[((i - 1) % 4) + 1])]

NoFrame == [payload |-> <<>>, opcode |-> 0, flags |-> 0, fin |-> FALSE, deflated |-> FALSE]

isControl(f) == f.opcode = Close \/ f.opcode = Ping \/ f.opcode = Pong

rsv1(f) == HasBit(f.flags, rsv1Mask)
rsv2(f) == HasBit(f.flags, rsv2Mask)
rsv3(f) == HasBit(f.flags, rsv3Mask)

\* Fragment kinds
fragSingle == "Single"
fragFirst == "First"
fragMiddle == "Middle"
fragLast == "Last"

fragment(f) ==
    IF f.fin
    THEN (IF f.opcode = Continuation THEN fragLast ELSE fragSingle)
    ELSE (IF f.opcode = Continuation THEN fragMiddle ELSE fragFirst)

first(f) == f.opcode # Continuation

isValidContinuation_Open(curr, prev) ==
    \* a plausible slip: a new message may start inside an open group
    IF prev \in {fragSingle, fragLast}
    THEN curr \in {fragSingle, fragFirst}
    ELSE curr \in {fragMiddle, fragLast, fragSingle}

isValidContinuation(curr, prev) ==
    IF prev \in {fragSingle, fragLast}
    THEN curr \in {fragSingle, fragFirst}
    ELSE curr \in {fragMiddle, fragLast}

verifyContinuation(f, prev) ==
    IF isControl(f) THEN "nil"
    ELSE IF ~isValidContinuation(fragment(f), prev) THEN "ErrInvalidFragmentation"
    ELSE "nil"

verifyRsvBits(f, deflateSupported) ==
    IF rsv1(f) /\ ~deflateSupported THEN "ErrDeflateNotSupported"
    ELSE IF rsv2(f) \/ rsv3(f) THEN "ErrReservedRsv"
    ELSE "nil"

opcodeVerify(o) ==
    IF o <= Binary \/ (o >= Close /\ o <= Pong) THEN "nil" ELSE "ErrReservedOpcode"

\* utf8.Valid of the Go standard library, on a sequence of bytes.  A byte in
\* 80..BF is a continuation byte; every other byte starts a sequence, so validity
\* is decided position by position.
utf8Cont(b) == b >= 128 /\ b <= 191

\* continuation bytes that follow the lead byte b; -1 for a byte that leads nothing
utf8Need(b) ==
    IF b < 128 THEN 0
    ELSE IF b >= 194 /\ b <= 223 THEN 1
    ELSE IF b >= 224 /\ b <= 239 THEN 2
    ELSE IF b >= 240 /\ b <= 244 THEN 3
    ELSE 0 - 1

\* the narrowed range of the second byte after E0, ED, F0 and F4
utf8Second(lead, b) ==
    /\ utf8Cont(b)
    /\ (lead = 224 => b >= 160)
    /\ (lead = 237 => b <= 159)
    /\ (lead = 240 => b >= 144)
    /\ (lead = 244 => b <= 143)

utf8Valid(p) ==
    \A i \in 1..Len(p) :
        IF utf8Cont(p[i])
        THEN \E k \in 1..3 :
                /\ i - k >= 1
                /\ ~utf8Cont(p[i - k])
                /\ utf8Need(p[i - k]) >= k
                /\ \A m \in 1..(k - 1) : utf8Cont(p[i - m])
        ELSE /\ utf8Need(p[i]) >= 0
             /\ i + utf8Need(p[i]) <= Len(p)
             /\ \A m \in 1..utf8Need(p[i]) : utf8Cont(p[i + m])
             /\ (utf8Need(p[i]) >= 1 => utf8Second(p[i], p[i + 1]))

\* Frame.closeCode that takes a payload of one byte for an absent code
closeCode_OneByte(f) ==
    IF f.opcode # Close THEN 0
    ELSE IF Len(f.payload) <= 1 THEN defaultCloseCode
    ELSE (f.payload[1] * 256) + f.payload[2]

closeCode(f) ==
    IF f.opcode # Close THEN 0
    ELSE IF Len(f.payload) = 1 THEN 0
    ELSE IF Len(f.payload) = 0 THEN defaultCloseCode
    ELSE (f.payload[1] * 256) + f.payload[2]

closePayload(f) ==
    IF Len(f.payload) > 2 THEN SubSeq(f.payload, 3, Len(f.payload)) ELSE <<>>

verifyCloseCode(f) ==
    LET cc == closeCode(f)
    IN  IF (cc >= 1000 /\ cc <= 1003) \/ (cc >= 1007 /\ cc <= 1011) \/ (cc >= 3000 /\ cc <= 4999)
        THEN "nil" ELSE "ErrInvalidCloseCode"

verifyClose(f) ==
    IF ~utf8Valid(closePayload(f)) THEN "ErrInvalidUtf8Payload" ELSE verifyCloseCode(f)

\* Frame.verifyControl that looks at FIN first
verifyControl_FinFirst(f) ==
    IF ~f.fin THEN "ErrFragmentedControlFrame"
    ELSE IF Len(f.payload) > 125 THEN "ErrTooBigPayloadForControlFrame"
    ELSE "nil"

verifyControl(f) ==
    IF Len(f.payload) > 125 THEN "ErrTooBigPayloadForControlFrame"
    ELSE IF ~f.fin THEN "ErrFragmentedControlFrame"
    ELSE "nil"

frameVerify(f) ==
    IF rsv2(f) \/ rsv3(f) THEN "ErrReservedRsv"
    ELSE IF opcodeVerify(f.opcode) # "nil" THEN opcodeVerify(f.opcode)
    ELSE IF ~isControl(f) THEN "nil"
    ELSE IF verifyControl(f) # "nil" THEN verifyControl(f)
    ELSE IF f.opcode = Close THEN verifyClose(f)
    ELSE "nil"


(***************************************************************************)
(* bufferBytesReader: the cursor over a received buffer.  head is the read *)
(* position, tail the end of the last complete frame (both 0-based).       *)
(***************************************************************************)

\* largest payload length the model represents exactly
MaxInt == (65536 * 32767) + 65535

\* stands for int(payloadLen) of a length from 2^63 on
MinInt == 0 - 1

NewBufferReader(buf) == [buf |-> buf, head |-> 0, tail |-> 0]

\* a bufioBytesReader holds in, what the net.Conn will deliver, and frameBytes;
\* an item of in is a byte b, and late tells that the read deadline expires
\* before the byte arrives: the read that waits for it fails with
\* os.ErrDeadlineExceeded and the byte is there for the next read
IsBufio(r) == "frameBytes" \in DOMAIN r

\* the bytes that are there before a read has to wait
Avail(in) ==
    IF \E i \in 1..Len(in) : in[i].late
    THEN (CHOOSE i \in 1..Len(in) : in[i].late /\ \A j \in 1..(i - 1) : ~in[j].late) - 1
    ELSE Len(in)

\* the deadline expired: the byte waited for is there from now on
Arrived(in) == [in EXCEPT ![1] = [b |-> in[1].b, late |-> FALSE]]

\* bufioBytesReader.ReadByte: io.ErrUnexpectedEOF for io.EOF inside a frame,
\* io.EOF for every other error of the bufio.Reader
BufioReadByte(r) ==
    IF r.in = <<>>
    THEN [kind |-> IF r.frameBytes > 0 THEN "io.ErrUnexpectedEOF" ELSE "eof",
          b |-> 0, rd |-> r, more |-> 0]
    ELSE IF r.in[1].late
    THEN [kind |-> "eof", b |-> 0, rd |-> [r EXCEPT !.in = Arrived(r.in)], more |-> 0]
    ELSE [kind |-> "ok", b |-> r.in[1].b,
          rd |-> [in |-> Tail(r.in), frameBytes |-> r.frameBytes + 1], more |-> 0]

\* bufioBytesReader.Read(size): io.ReadFull into a new buffer; the bytes read
\* before an error are dropped with the buffer
BufioRead(r, size) ==
    IF size < 0
    THEN [kind |-> "panic", bytes |-> <<>>, rd |-> r, more |-> 0]
    ELSE IF Avail(r.in) >= size
    THEN [kind |-> "ok", bytes |-> [i \in 1..size |-> r.in[i].b],
          rd |-> [in |-> SubSeq(r.in, size + 1, Len(r.in)), frameBytes |-> r.frameBytes + size],
          more |-> 0]
    ELSE IF Avail(r.in) < Len(r.in)
    THEN [kind |-> "os.ErrDeadlineExceeded", bytes |-> <<>>,
          rd |-> [r EXCEPT !.in = Arrived(SubSeq(r.in, Avail(r.in) + 1, Len(r.in)))],
          more |-> 0]
    ELSE [kind |-> IF Len(r.in) = 0 THEN "eof" ELSE "io.ErrUnexpectedEOF",
          bytes |-> <<>>, rd |-> [r EXCEPT !.in = <<>>], more |-> 0]

\* bufioBytesReader.FrameDone
BufioFrameDone(r) == [r EXCEPT !.frameBytes = 0]

\* BytesReader.ReadByte; of the bufferBytesReader: a byte, io.EOF at a frame
\* boundary, else ErrReadMore{1}
RdReadByte(r) ==
    IF IsBufio(r) THEN BufioReadByte(r)
    ELSE
    IF r.head < Len(r.buf)
    THEN [kind |-> "ok", b |-> r.buf[r.head + 1], rd |-> [r EXCEPT !.head = r.head + 1], more |-> 0]
    ELSE IF r.head = r.tail
    THEN [kind |-> "eof", b |-> 0, rd |-> r, more |-> 0]
    ELSE [kind |-> "more", b |-> 0, rd |-> r, more |-> 1]

\* Read(size): size bytes, io.EOF at a frame boundary, else ErrReadMore{missing};
\* with a negative size head+size <= len(buf) holds and the slice expression
\* buf[head : head+size] panics (slice bounds out of range)
RdRead(r, size) ==
    IF IsBufio(r) THEN BufioRead(r, size)
    ELSE
    IF size < 0
    THEN [kind |-> "panic", bytes |-> <<>>, rd |-> r, more |-> 0]
    ELSE IF r.head + size <= Len(r.buf)
    THEN [kind |-> "ok", bytes |-> SubSeq(r.buf, r.head + 1, r.head + size),
          rd |-> [r EXCEPT !.head = r.head + size], more |-> 0]
    ELSE IF r.head = r.tail
    THEN [kind |-> "eof", bytes |-> <<>>, rd |-> r, more |-> 0]
    ELSE [kind |-> "more", bytes |-> <<>>, rd |-> r, more |-> r.head + size - Len(r.buf)]

\* FrameDone: the frame that ends at head is complete
RdFrameDone(r) == IF IsBufio(r) THEN BufioFrameDone(r) ELSE [r EXCEPT !.tail = r.head]

\* pending(): the bytes after the last complete frame
RdPending(r) == SubSeq(r.buf, r.tail + 1, Len(r.buf))

\* binary.BigEndian.Uint16
BigEndianUint16(b) == (b[1] * 256) + b[2]

\* binary.BigEndian.Uint64 followed by int(payloadLen): a value from 2^63 on
\* is a negative int, for which MinInt stands; MaxInt stands for every other
\* length that does not fit 31 bits (no buffer of the model holds that many
\* bytes)
BigEndianUint64(b) ==
    IF b[1] >= 128 THEN MinInt
    ELSE IF b[1] # 0 \/ b[2] # 0 \/ b[3] # 0 \/ b[4] # 0 \/ b[5] >= 128
    THEN MaxInt
    ELSE (((((b[5] * 256) + b[6]) * 256) + b[7]) * 256) + b[8]

FrameResult(kind, f, r, more, err) ==
    [kind |-> kind, frame |-> f, rd |-> r, more |-> more, err |-> err]

\* what newFrame returns when a read did not deliver: io.EOF or ErrReadMore
Short(res) == FrameResult(res.kind, NoFrame, res.rd, res.more, "nil")

\* the frame's tail: verification and FrameDone
newFrameBuild(r, flags, opcode, payload) ==
    LET frame == [payload |-> payload, opcode |-> opcode, flags |-> flags,
                  fin |-> HasBit(flags, finMask), deflated |-> HasBit(flags, rsv1Mask)]
        e == frameVerify(frame)
    IN  IF e # "nil" THEN FrameResult("err", NoFrame, r, 0, e)
        ELSE FrameResult("frame", frame, RdFrameDone(r), 0, "nil")

newFramePayload(r, flags, opcode, payloadLen, masked, mask) ==
    \* payloadLen > 0 is tested on the uint64
    IF payloadLen # 0
    THEN LET p == IF payloadLen = MaxInt
                  THEN [kind |-> "more", bytes |-> <<>>, rd |-> r, more |-> MaxInt]
                  ELSE RdRead(r, payloadLen)
         IN  IF p.kind # "ok" THEN Short(p)
             ELSE newFrameBuild(p.rd, flags, opcode,
                                IF masked THEN maskUnmask(mask, p.bytes) ELSE p.bytes)
    ELSE newFrameBuild(r, flags, opcode, <<>>)

newFrameMask(r, flags, opcode, payloadLen, masked) ==
    IF masked
    THEN LET m == RdRead(r, 4)
         IN  IF m.kind # "ok" THEN Short(m)
             ELSE newFramePayload(m.rd, flags, opcode, payloadLen, masked, m.bytes)
    ELSE newFramePayload(r, flags, opcode, payloadLen, masked, <<>>)

\* newFrame over a bufferBytesReader
newFrame(r) ==
    LET b1 == RdReadByte(r)
    IN  IF b1.kind # "ok" THEN FrameResult(b1.kind, NoFrame, b1.rd, b1.more, "nil")
        ELSE
        LET b2 == RdReadByte(b1.rd)
        IN  IF b2.kind # "ok" THEN FrameResult(b2.kind, NoFrame, b2.rd, b2.more, "nil")
            ELSE
            LET flags == b1.b - (b1.b % 16)
                opcode == b1.b % 16
                masked == b2.b >= 128
                len7 == b2.b % 128
            IN  IF len7 = 126
                THEN LET e == RdRead(b2.rd, 2)
                     IN  IF e.kind # "ok" THEN Short(e)
                         ELSE newFrameMask(e.rd, flags, opcode, BigEndianUint16(e.bytes), masked)
                ELSE IF len7 = 127
                THEN LET e == RdRead(b2.rd, 8)
                     IN  IF e.kind # "ok" THEN Short(e)
                         ELSE newFrameMask(e.rd, flags, opcode, BigEndianUint64(e.bytes), masked)
                ELSE newFrameMask(b2.rd, flags, opcode, len7, masked)

\* Frame.payloadLenBytes with the 7-bit form also used for length 126
payloadLenBytes_Off(f) ==
    IF Len(f.payload) <= 126 THEN 0
    ELSE IF Len(f.payload) < 65536 THEN 2
    ELSE 8

payloadLenBytes(f) ==
    IF Len(f.payload) < 126 THEN 0
    ELSE IF Len(f.payload) < 65536 THEN 2
    ELSE 8

\* binary.BigEndian.PutUint16 of uint16(n)
PutUint16(n) == <<(n \div 256) % 256, n % 256>>

\* binary.BigEndian.PutUint64 of a length below 2^31
PutUint64(n) ==
    <<0, 0, 0, 0, (n \div 16777216) % 256, (n \div 65536) % 256, (n \div 256) % 256, n % 256>>

\* Frame.header: the flags field of the frame is not consulted
header(f) ==
    LET plb == payloadLenBytes(f)
        h0 == f.opcode + (IF f.fin THEN finMask ELSE 0) + (IF f.deflated THEN rsv1Mask ELSE 0)
    IN  IF plb = 0 THEN <<h0, Len(f.payload)>>
        ELSE IF plb = 2 THEN <<h0, 126>> \o PutUint16(Len(f.payload))
        ELSE <<h0, 127>> \o PutUint64(Len(f.payload))

\* Frame.encode: the buffer list [header, payload]
encode(f) == <<header(f), f.payload>>

\* the bytes a vectored write of the buffer list puts on the wire
Wire(buffers) == buffers[1] \o buffers[2]

\* encodeFrame with permessageDeflate off: Frame{fin: true, opcode, payload}
encodeFrame(opcode, payload) ==
    encode([payload |-> payload, opcode |-> opcode, flags |-> 0, fin |-> TRUE, deflated |-> FALSE])


(***************************************************************************)
(* AsyncConn (ws/async_conn.go).  permessageDeflate is off, as in the      *)
(* connections the tests build; the deflate side-car is not modelled.      *)
(***************************************************************************)

msReset == [payload |-> <<>>, opcode |-> None, prevFrameFragment |-> fragSingle,
            compressed |-> FALSE]

\* the zero value of messageState
msZero == [payload |-> <<>>, opcode |-> Continuation, prevFrameFragment |-> fragSingle,
           compressed |-> FALSE]

\* AsyncConn{tc, up}: empty frameState and messageState; recvd, sent and closeCalls
\* record the calls made on the upstream (Received) and on the TCP connection
\* (Send, Close); inflight counts the sends handed to the TCP connection whose
\* completion has not been dispatched yet; err is the error the last Received
\* call logged, "nil" if it logged none
NewAsyncConn ==
    [pending |-> <<>>, recvMore |-> 0, ms |-> msZero,
     recvd |-> <<>>, sent |-> <<>>, closeCalls |-> 0, inflight |-> 0, err |-> "nil"]

\* messageState.add that keeps only the payload of the frame added last
msAdd_LastPayload(ms, f) ==
    [payload |-> f.payload,
     opcode |-> IF first(f) THEN f.opcode ELSE ms.opcode,
     prevFrameFragment |-> fragment(f),
     compressed |-> IF first(f) THEN rsv1(f) ELSE ms.compressed]

\* messageState.add
msAdd(ms, f) ==
    [payload |-> ms.payload \o f.payload,
     opcode |-> IF first(f) THEN f.opcode ELSE ms.opcode,
     prevFrameFragment |-> fragment(f),
     compressed |-> IF first(f) THEN rsv1(f) ELSE ms.compressed]

\* frameState.reset that keeps the pending bytes
fsReset_KeepsPending(c) == [c EXCEPT !.recvMore = 0]

\* frameState.reset
fsReset(c) == [c EXCEPT !.pending = <<>>, !.recvMore = 0]

\* frameState.unprocessed
fsUnprocessed(c, buf, recvMore) ==
    [c EXCEPT !.pending = c.pending \o buf, !.recvMore = recvMore]

verifyFrame(f, prevFragment, permessageDeflate) ==
    IF verifyContinuation(f, prevFragment) # "nil" THEN verifyContinuation(f, prevFragment)
    ELSE verifyRsvBits(f, permessageDeflate)

verifyMessage(opcode, payload) ==
    IF opcode = Text /\ ~utf8Valid(payload) THEN "ErrInvalidUtf8Payload" ELSE "nil"

\* AsyncConn.send: encode the frame and hand it to the TCP connection
acSend(c, opcode, payload) ==
    [c EXCEPT !.sent = Append(c.sent, Wire(encodeFrame(opcode, payload))),
              !.inflight = c.inflight + 1]

\* AsyncConn.handleControl that answers without the payload
acHandleControl_NoPayload(c, f) ==
    IF f.opcode = Ping THEN acSend(c, Pong, <<>>)
    ELSE IF f.opcode = Close THEN acSend(c, Close, <<>>)
    ELSE c

\* AsyncConn.handleControl that also drops the message being assembled
acHandleControl_Drop(c, f) ==
    IF f.opcode = Ping THEN [acSend(c, Pong, f.payload) EXCEPT !.ms = msReset]
    ELSE IF f.opcode = Close THEN [acSend(c, Close, f.payload) EXCEPT !.ms = msReset]
    ELSE c

\* AsyncConn.handleControl
acHandleControl(c, f) ==
    IF f.opcode = Ping THEN acSend(c, Pong, f.payload)
    ELSE IF f.opcode = Close THEN acSend(c, Close, f.payload)
    ELSE c

\* the body of the readFrames loop for one parsed frame: [c, err]
acFrame(c, f) ==
    IF isControl(f) THEN [c |-> acHandleControl(c, f), err |-> "nil"]
    ELSE
    LET e == verifyFrame(f, c.ms.prevFrameFragment, FALSE)
    IN  IF e # "nil" THEN [c |-> c, err |-> e]
        ELSE
        LET c2 == [c EXCEPT !.ms = msAdd(c.ms, f)]
        IN  IF ~f.fin THEN [c |-> c2, err |-> "nil"]
            ELSE
            LET e2 == verifyMessage(c2.ms.opcode, c2.ms.payload)
            IN  IF e2 # "nil" THEN [c |-> c2, err |-> e2]
                ELSE [c |-> [c2 EXCEPT !.recvd = Append(c2.recvd, c2.ms.payload),
                                       !.ms = msReset],
                      err |-> "nil"]

RECURSIVE readFrames(_, _)

\* the readFrames loop after the body ran for a frame: return its error or
\* read the next frame
readFramesNext(step, rd) ==
    IF step.err # "nil" THEN step ELSE readFrames(step.c, rd)

\* the readFrames loop on the result res of rdr.Read()
readFramesOn(c, res) ==
    IF res.kind = "eof" THEN [c |-> c, err |-> "nil"]
    ELSE IF res.kind = "more"
    THEN [c |-> fsUnprocessed(c, RdPending(res.rd), res.more), err |-> "nil"]
    ELSE IF res.kind = "err" THEN [c |-> c, err |-> res.err]
    ELSE IF res.kind = "panic" THEN [c |-> c, err |-> "panic"]
    ELSE readFramesNext(acFrame(fsReset(c), res.frame), res.rd)

\* AsyncConn.readFrames: [c, err]
readFrames(c, rd) == readFramesOn(c, newFrame(rd))

\* AsyncConn.Received that only logs a parse error
ReceivedOn_NoClose(r) == [r.c EXCEPT !.err = r.err]

\* AsyncConn.Received on the result r of readFrames: c.tc.Close() on an error
\* (a panic ends the process instead)
ReceivedOn(r) ==
    IF r.err = "panic" THEN [r.c EXCEPT !.err = r.err]
    ELSE IF r.err # "nil"
    THEN [r.c EXCEPT !.closeCalls = r.c.closeCalls + 1, !.err = r.err]
    ELSE [r.c EXCEPT !.err = "nil"]

\* AsyncConn.Received with frameState.received
Received(c, buf) ==
    IF Len(buf) < c.recvMore
    THEN [c EXCEPT !.pending = c.pending \o buf, !.recvMore = c.recvMore - Len(buf),
                   !.err = "nil"]
    ELSE
    LET b == IF Len(c.pending) > 0 THEN c.pending \o buf ELSE buf
        c1 == IF Len(c.pending) > 0 THEN [c EXCEPT !.recvMore = 0] ELSE c
    IN  ReceivedOn(readFrames(c1, NewBufferReader(b)))

\* AsyncConn.Sent: the TCP connection reports one send as drained
acSent(c) == [c EXCEPT !.inflight = c.inflight - 1]

(***************************************************************************)
(* SpecAsync: a buffer, cut into chunks, is delivered to an AsyncConn.     *)
(***************************************************************************)

\* bytes the buffers are built from: Continuation and Text headers with and
\* without FIN (also read as lengths 0 and 1, masked or not), a Ping header, and
\* the first byte of a two-byte UTF-8 sequence
ByteAlphabet == {0, 1, 128, 129, 137, 195}

MaxBufLen == 4

RECURSIVE SeqsUpTo(_, _)
SeqsUpTo(S, n) ==
    IF n = 0 THEN {<<>>}
    ELSE LET shorter == SeqsUpTo(S, n - 1)
         IN  shorter \cup {Append(q, x) : q \in {t \in shorter : Len(t) = n - 1}, x \in S}

Bufs == SeqsUpTo(ByteAlphabet, MaxBufLen)

\* buffers of the tests (ws/frame_test.go)
helloFrame == <<129, 5, 72, 101, 108, 108, 111>>
maskedHelloFrame == <<129, 133, 55, 250, 33, 61, 127, 159, 77, 81, 88>>
pingFrame == <<137, 0>>
pongFrame == <<138, 0>>
fragment1 == <<1, 1, 72>>
fragment2 == <<0, 3, 101, 108, 108>>
fragment3 == <<128, 2, 111, 33>>
fragmentedMessage == fragment1 \o pingFrame \o fragment2 \o pongFrame \o fragment3

Hello == <<72, 101, 108, 108, 111>>

TestBufs == {helloFrame, maskedHelloFrame, fragmentedMessage}

\* the default close frame of the tests, status 1001
closeFrame == <<136, 2, 3, 233>>

\* control frames with a payload and frames that break the protocol: a Ping
\* and a Pong with a payload, a message followed by the close frame, a Close
\* with the code 1004, a Close with a reason that is not UTF-8, a Text frame
\* with RSV1, a Text frame with RSV2
ControlBufs ==
    {closeFrame, <<137, 2, 72, 105>>, <<138, 1, 65>>, helloFrame \o closeFrame,
     <<136, 2, 3, 236>>, <<136, 3, 3, 232, 255>>, <<193, 0>>, <<161, 0>>}

\* the buffer in two chunks, cut at k
SplitAt(buf, k) == <<SubSeq(buf, 1, k), SubSeq(buf, k + 1, Len(buf))>>

\* the buffer one byte per chunk
ByteWise(buf) == [i \in 1..Len(buf) |-> <<buf[i]>>]

InitIdleAio ==
    /\ lsn = [accept |-> "none", cancel |-> "none", shutdownConnections |-> TRUE,
             conns |-> {}]
    /\ conn = <<>>
    /\ ring = 0
    /\ hlog = [on |-> FALSE, c |-> 0, ev |-> <<>>]
    /\ loop = <<>>
    /\ rg = <<>>
    /\ wv = <<>>

InitIdleAsync ==
    /\ ac = NewAsyncConn
    /\ ref = NewAsyncConn
    /\ todo = <<>>
    /\ whole = <<>>
    /\ mode = "idle"

\* Conn.read starts with these locals
readLocals == msReset

\* the sync Conn: the locals of the read in progress, whether the net.Conn is
\* open, the messages Read returned, the frames written, the error Read returned
NewConn ==
    [ms |-> readLocals, open |-> TRUE, ret |-> <<>>, written |-> <<>>, err |-> "nil"]

NoFeed == [n |-> 0, driver |-> "none", frame |-> NoFrame, before |-> msReset]

\* a bufioBytesReader over a net.Conn on which nothing arrives
NoReader == [in |-> <<>>, frameBytes |-> 0]

\* a peer that sends nothing
NoPeer == [frames |-> <<>>, stream |-> <<>>, fed |-> FALSE, wfail |-> FALSE]

InitIdleFrames ==
    /\ ams = NewAsyncConn
    /\ sst = NewConn
    /\ fseq = <<>>
    /\ lastFrame = NoFeed
    /\ fr = NoReader
    /\ peer = NoPeer

\* a writer that was not made
NoWriter == [buf |-> <<>>, head |-> 0, tail |-> 0, err |-> "nil", last |-> "none"]

InitIdleSeb == ew = NoWriter

InitIdleCodec ==
    /\ cF = NoFrame
    /\ cEnc = <<>>
    /\ cDec = <<>>
    /\ cStage = "idle"
    /\ cIn = <<>>

InitAsync ==
    /\ InitIdleAio /\ InitIdleFrames /\ InitIdleCodec /\ InitIdleSeb
    /\ ac = NewAsyncConn
    /\ ref = NewAsyncConn
    /\ \/ /\ whole \in Bufs \cup TestBufs \cup ControlBufs
          /\ \E k \in 0..Len(whole) : todo = SplitAt(whole, k)
          /\ mode = "split"
       \/ /\ whole \in TestBufs
          /\ todo = ByteWise(whole)
          /\ mode = "bytes"

\* the TCP connection delivers the next chunk: AsyncConn.Received
Deliver ==
    /\ todo # <<>>
    /\ ac' = Received(ac, Head(todo))
    /\ todo' = Tail(todo)
    /\ UNCHANGED <<ref, whole, mode>>

\* the same buffer delivered to a fresh connection in one call
DeliverWhole ==
    /\ mode \in {"split", "bytes"}
    /\ ref = NewAsyncConn
    /\ whole # <<>>
    /\ ref' = Received(ref, whole)
    /\ UNCHANGED <<ac, todo, whole, mode>>

\* the TCP connection reports a send as drained: AsyncConn.Sent
SendDrained ==
    /\ ac.inflight > 0
    /\ ac' = acSent(ac)
    /\ UNCHANGED <<ref, todo, whole, mode>>

NextAsync ==
    \/ Deliver /\ UNCHANGED <<aioVars, framesVars, codecVars, sebVars>>
    \/ DeliverWhole /\ UNCHANGED <<aioVars, framesVars, codecVars, sebVars>>
    \/ SendDrained /\ UNCHANGED <<aioVars, framesVars, codecVars, sebVars>>

SpecAsync == InitAsync /\ [][NextAsync]_vars

\* the chunks of a cut buffer are all delivered, and so is the whole buffer
AllDelivered == mode # "idle" /\ todo = <<>> /\ (ref # NewAsyncConn \/ whole = <<>>)


\* C5: for every buffer and every cut point k, Received(buf[0..k]) followed by
\* Received(buf[k..]) has emitted upstream the same sequence of messages as one
\* Received(buf) on a fresh connection
C5_SplitEmitsSameMessages ==
    (mode = "split" /\ AllDelivered) => ac.recvd = ref.recvd

\* C6: the masked Hello frame delivered one byte per call emits nothing before the
\* final byte, emits exactly one message "Hello" on the final byte, and never
\* asks for the TCP connection to be closed
C6_ByteWiseHelloOnce ==
    (mode = "bytes" /\ whole = maskedHelloFrame) =>
        /\ ac.closeCalls = 0
        /\ (todo # <<>> => ac.recvd = <<>>)
        /\ (todo = <<>> => ac.recvd = <<Hello>>)

\* C10: at most one send handed to the TCP connection is awaiting its completion
\* at any time, the sends of the async WebSocket connection included
C10_OneSendInFlight == ac.inflight <= 1

(***************************************************************************)
(* SpecCodec: a frame is encoded by Frame.encode and the bytes are parsed  *)
(* back by newFrame.                                                       *)
(***************************************************************************)

\* payload lengths on both sides of the limits of the three length encodings
PayloadLens == {0, 1, 2, 125, 126, 127, 65535, 65536}

\* the byte values 0..MaxFill fill the generated payloads
MaxFill == 1

Fill(n, b) == SubSeq([i \in 1..n |-> b], 1, n)

\* generated payloads, "Hello", and the close payloads 1000 and 1001 "A"
Payloads ==
    {Fill(n, b) : n \in PayloadLens, b \in 0..MaxFill} \cup {Hello, <<3, 232>>, <<3, 233, 65>>}

OpCodes == {Continuation, Text, Binary, Close, Ping, Pong}

\* the flags byte a parsed frame carries for its fin and rsv1 bits
FlagsOf(fin, deflated) ==
    (IF fin THEN finMask ELSE 0) + (IF deflated THEN rsv1Mask ELSE 0)

\* the flags a frame to encode carries: encodeFrame leaves them zero, a frame that
\* newFrame parsed carries the fin and rsv1 bits
FrameFlags == {0, finMask, finMask + rsv1Mask}

InitCodec ==
    /\ InitIdleAio /\ InitIdleAsync /\ InitIdleSeb /\ InitIdleFrames
    /\ \E p \in Payloads, o \in OpCodes, fin \in BOOLEAN, d \in BOOLEAN, fl \in FrameFlags :
          cF = [payload |-> p, opcode |-> o, flags |-> fl, fin |-> fin, deflated |-> d]
    \* a legal frame passes Frame.verify
    /\ frameVerify(cF) = "nil"
    /\ cEnc = <<>>
    /\ cDec = FrameResult("none", NoFrame, NewBufferReader(<<>>), 0, "nil")
    /\ cStage = "built"
    /\ cIn = <<>>

\* Frame.encode: header ++ payload
Encode ==
    /\ cStage = "built"
    /\ cEnc' = Wire(encode(cF))
    /\ cStage' = "encoded"
    /\ UNCHANGED <<cF, cDec, cIn>>

\* newFrame over the encoded bytes
Parse ==
    /\ cStage = "encoded"
    /\ cDec' = newFrame(NewBufferReader(cEnc))
    /\ cStage' = "parsed"
    /\ UNCHANGED <<cF, cEnc, cIn>>

NextCodec ==
    \/ Encode /\ UNCHANGED <<aioVars, asyncVars, framesVars, sebVars>>
    \/ Parse /\ UNCHANGED <<aioVars, asyncVars, framesVars, sebVars>>

SpecCodec == InitCodec /\ [][NextCodec]_vars

(***************************************************************************)
(* SpecParse: newFrame over the bytes of a frame as a peer puts them on    *)
(* the wire, with any flags and opcode, followed or not by a second frame, *)
(* and cut short at a byte.                                                *)
(***************************************************************************)

\* the masking key of maskedHelloFrame
TestMask == <<55, 250, 33, 61>>

\* a 64-bit length field with the top bit set: 2^64 - 1 and 2^63
Len8s == {<<255, 255, 255, 255, 255, 255, 255, 255>>, <<128, 0, 0, 0, 0, 0, 0, 0>>}

\* the bytes of the length field after the second header byte
extLen(f, len8) ==
    IF len8 # <<>> THEN len8
    ELSE IF payloadLenBytes(f) = 0 THEN <<>>
    ELSE IF payloadLenBytes(f) = 2 THEN PutUint16(Len(f.payload))
    ELSE PutUint64(Len(f.payload))

\* the wire bytes newFrame decodes: flags and opcode, mask bit and length,
\* extended length, masking key, payload
rawFrame(f, masked, len8) ==
    LET len7 == IF len8 # <<>> THEN 127
                ELSE IF payloadLenBytes(f) = 0 THEN Len(f.payload)
                ELSE IF payloadLenBytes(f) = 2 THEN 126 ELSE 127
    IN  <<f.flags + f.opcode, len7 + (IF masked THEN 128 ELSE 0)>>
        \o extLen(f, len8)
        \o (IF masked THEN TestMask ELSE <<>>)
        \o (IF masked THEN maskUnmask(TestMask, f.payload) ELSE f.payload)

\* close codes on both sides of the limits of the accepted ranges
CloseCodes == {0, 999, 1000, 1003, 1004, 1006, 1007, 1011, 1012, 2999, 3000, 4999, 5000, 65535}

\* payloads of no, one and two bytes, of 125 and 126 bytes, a close code alone
\* and a close code with a reason that is or is not UTF-8
ParsePayloads ==
    {Fill(n, b) : n \in {0, 1, 2, 125, 126}, b \in 0..MaxFill}
        \cup {PutUint16(cc) : cc \in CloseCodes}
        \cup {PutUint16(cc) \o r : cc \in {1000, 1004}, r \in {<<65>>, <<255>>}}

\* flags of a wire frame: any of fin, rsv1, rsv2, rsv3
WireFlags == {16 * i : i \in 0..15}

WireFrame(flags, opcode, payload) ==
    [payload |-> payload, opcode |-> opcode, flags |-> flags,
     fin |-> HasBit(flags, finMask), deflated |-> HasBit(flags, rsv1Mask)]

\* where a buffer of n bytes is cut: in its first bytes, and at and just
\* before its end
MaxCut == 16

Cuts(n) == {k \in 0..n : k <= MaxCut \/ k >= n - 1}

\* the bytes a second frame starts with
Follows == {<<>>, pingFrame}

\* every frame whole, and the final Text and Ping frames cut short
InitParse ==
    /\ InitIdleAio /\ InitIdleAsync /\ InitIdleSeb /\ InitIdleFrames
    /\ \E flags \in WireFlags, opcode \in 0..15, p \in ParsePayloads, masked \in BOOLEAN,
          len8 \in {<<>>} \cup Len8s, follow \in Follows :
          LET f == WireFrame(flags, opcode, p)
              wire == rawFrame(f, masked, len8) \o follow
          IN  /\ (len8 # <<>> \/ follow # <<>>) => (flags = finMask /\ opcode \in {Text, Ping})
              /\ \E cut \in Cuts(Len(wire)) :
                    /\ cut < Len(wire) => (flags = finMask /\ opcode \in {Text, Ping})
                    /\ cF = f
                    /\ cIn = [masked |-> masked, len8 |-> len8, follow |-> follow, cut |-> cut]
                    /\ cEnc = SubSeq(wire, 1, cut)
    /\ cDec = FrameResult("none", NoFrame, NewBufferReader(<<>>), 0, "nil")
    /\ cStage = "encoded"

\* FrameReader.Read again, on the reader a frame was read from
ParseNext ==
    /\ cStage = "parsed"
    /\ cDec.kind = "frame"
    /\ cDec' = newFrame(cDec.rd)
    /\ cStage' = "parsedNext"
    /\ UNCHANGED <<cF, cEnc, cIn>>

NextParse ==
    \/ Parse /\ UNCHANGED <<aioVars, asyncVars, framesVars, sebVars>>
    \/ ParseNext /\ UNCHANGED <<aioVars, asyncVars, framesVars, sebVars>>

SpecParse == InitParse /\ [][NextParse]_vars

\* C7 as stated: the parsed frame equals the encoded one in every field, flags
\* included
C7_RoundTripEveryField ==
    cStage = "parsed" => (cDec.kind = "frame" /\ cDec.frame = cF)

\* C7: parsing the encoding of a legal frame consumes all its bytes and gives back
\* its opcode, fin, deflated and payload, in each of the three length encodings;
\* the flags of the parsed frame are the fin and rsv1 bits of the header, whatever
\* flags the encoded frame carried
C7_RoundTrip ==
    cStage = "parsed" =>
        /\ cDec.kind = "frame"
        /\ cDec.frame.opcode = cF.opcode
        /\ cDec.frame.fin = cF.fin
        /\ cDec.frame.deflated = cF.deflated
        /\ cDec.frame.payload = cF.payload
        /\ cDec.frame.flags = FlagsOf(cF.fin, cF.deflated)
        /\ cDec.rd.tail = Len(cEnc)
        /\ Len(cEnc) = 2 + payloadLenBytes(cF) + Len(cF.payload)

\* a non-final deflated Binary frame whose payload needs the two-byte length
\* went through encode and newFrame
C7_Witness ==
    /\ cStage = "parsed"
    /\ cF.opcode = Binary /\ ~cF.fin /\ cF.deflated
    /\ Len(cF.payload) = 126
    /\ Len(cEnc) = 130
    /\ cDec.kind = "frame"

(***************************************************************************)
(* The sync driver (Conn.read) and SpecFrames: one driver, chosen at the   *)
(* start, is fed frames one by one.                                        *)
(***************************************************************************)

\* Conn.Write: encode and write; ok tells whether the net.Conn took the bytes
connWrite(s, opcode, payload, ok) ==
    IF ok THEN [s EXCEPT !.written = Append(s.written, Wire(encodeFrame(opcode, payload)))]
    ELSE s

\* Conn.handleControl that answers a Ping with an empty Pong
connHandleControl_EmptyPong(s, f, ok) ==
    IF f.opcode = Ping
    THEN [s |-> connWrite(s, Pong, <<>>, ok), err |-> IF ok THEN "nil" ELSE "ErrWrite"]
    ELSE IF f.opcode = Close
    THEN [s |-> connWrite(s, Close, f.payload, ok), err |-> "io.EOF"]
    ELSE [s |-> s, err |-> "nil"]

\* Conn.handleControl: [s, err]
connHandleControl(s, f, ok) ==
    IF f.opcode = Ping
    THEN [s |-> connWrite(s, Pong, f.payload, ok), err |-> IF ok THEN "nil" ELSE "ErrWrite"]
    ELSE IF f.opcode = Close
    THEN [s |-> connWrite(s, Close, f.payload, ok), err |-> "io.EOF"]
    ELSE [s |-> s, err |-> "nil"]

\* read returns an error: its locals are gone, and Read closes the net.Conn
connFail(s, err) == [s EXCEPT !.ms = readLocals, !.open = FALSE, !.err = err]

\* read returns a message: the next read starts with fresh locals
connMessage(s, opcode, payload) ==
    [s EXCEPT !.ms = readLocals,
              !.ret = Append(s.ret, [opcode |-> opcode, payload |-> payload])]

\* one turn of the loop of Conn.read, for the frame readFrame returned
connRead(s, f, ok) ==
    IF isControl(f)
    THEN LET h == connHandleControl(s, f, ok)
         IN  IF h.err # "nil" THEN connFail(h.s, h.err) ELSE h.s
    ELSE
    LET e == verifyFrame(f, s.ms.prevFrameFragment, FALSE)
    IN  IF e # "nil" THEN connFail(s, e)
        ELSE
        LET opcode == IF first(f) THEN f.opcode ELSE s.ms.opcode
            compressed == IF first(f) THEN rsv1(f) ELSE s.ms.compressed
            payload == IF first(f) THEN f.payload ELSE s.ms.payload \o f.payload
        IN  IF f.fin
            THEN IF verifyMessage(opcode, payload) # "nil"
                 THEN connFail(s, verifyMessage(opcode, payload))
                 ELSE connMessage(s, opcode, payload)
            ELSE [s EXCEPT !.ms = [payload |-> payload, opcode |-> opcode,
                                   prevFrameFragment |-> fragment(f),
                                   compressed |-> compressed]]

MaxFrames == 4

\* a frame as newFrame returns it
ParsedFrame(opcode, fin, payload) ==
    [payload |-> payload, opcode |-> opcode, flags |-> FlagsOf(fin, FALSE),
     fin |-> fin, deflated |-> FALSE]

\* data frames of every fragment kind, with an empty payload and with a payload
\* that is not valid UTF-8 on its own, and the three control frames
FedFrames ==
    {ParsedFrame(o, fin, p) : o \in {Continuation, Text}, fin \in BOOLEAN, p \in {<<>>, <<195>>}}
        \cup {ParsedFrame(Binary, TRUE, <<>>)}
        \cup {ParsedFrame(o, TRUE, <<>>) : o \in {Ping, Pong, Close}}

InitFrames ==
    /\ InitIdleAio /\ InitIdleAsync /\ InitIdleSeb /\ InitIdleCodec
    /\ ams = NewAsyncConn
    /\ sst = NewConn
    /\ fseq = <<>>
    /\ fr = NoReader
    /\ peer = NoPeer
    /\ \E d \in {"async", "sync"} : lastFrame = [NoFeed EXCEPT !.driver = d]

\* the verdict on a non-control frame joins the log
Logged(f, err) ==
    IF isControl(f) THEN fseq ELSE Append(fseq, [kind |-> fragment(f), err |-> err])

\* the async driver receives the bytes of one frame: AsyncConn.Received
AsyncFrame ==
    /\ lastFrame.driver = "async"
    /\ lastFrame.n < MaxFrames
    /\ \E f \in FedFrames :
        /\ ams' = Received(ams, Wire(encode(f)))
        /\ fseq' = Logged(f, ams'.err)
        /\ lastFrame' = [lastFrame EXCEPT !.n = lastFrame.n + 1, !.frame = f,
                                          !.before = ams.ms]
    /\ UNCHANGED <<sst, fr, peer>>

\* the sync driver reads one frame: one turn of Conn.read
SyncFrame ==
    /\ lastFrame.driver = "sync"
    /\ lastFrame.n < MaxFrames
    /\ sst.open
    /\ \E f \in FedFrames, ok \in BOOLEAN :
        /\ sst' = connRead([sst EXCEPT !.err = "nil"], f, ok)
        /\ fseq' = Logged(f, sst'.err)
        /\ lastFrame' = [lastFrame EXCEPT !.n = lastFrame.n + 1, !.frame = f,
                                          !.before = sst.ms]
    /\ UNCHANGED <<ams, fr, peer>>

NextFrames ==
    \/ AsyncFrame /\ UNCHANGED <<aioVars, asyncVars, codecVars, sebVars>>
    \/ SyncFrame /\ UNCHANGED <<aioVars, asyncVars, codecVars, sebVars>>

SpecFrames == InitFrames /\ [][NextFrames]_vars

\* the grammar of fragment kinds: Single frames and (First, Middle*, Last) groups
RECURSIVE InGrammar(_)
InGrammar(w) ==
    \/ w = <<>>
    \/ /\ w # <<>> /\ Head(w) = fragSingle /\ InGrammar(Tail(w))
    \/ /\ w # <<>> /\ Head(w) = fragFirst
       /\ \E k \in 2..Len(w) :
            /\ w[k] = fragLast
            /\ \A m \in 2..(k - 1) : w[m] = fragMiddle
            /\ InGrammar(SubSeq(w, k + 1, Len(w)))

\* a sequence that the grammar accepts or that stops inside an open group
FollowsGrammar(w) == InGrammar(w) \/ InGrammar(Append(w, fragLast))

Kinds(i) == [j \in 1..i |-> fseq[j].kind]

\* C8: as long as no earlier frame was refused, a non-control frame is refused
\* with ErrInvalidFragmentation exactly when the fragment kinds fed so far, this
\* frame included, stop following the grammar of Single frames and
\* (First, Middle*, Last) groups
C8_FragmentationGrammar ==
    \A i \in 1..Len(fseq) :
        (\A j \in 1..(i - 1) : fseq[j].err = "nil") =>
            (fseq[i].err = "ErrInvalidFragmentation" <=> ~FollowsGrammar(Kinds(i)))

\* a complete (First, Middle, Last) group was accepted and the Continuation
\* frame after it was refused
C8_Witness ==
    /\ Len(fseq) = 4
    /\ Kinds(4) = <<fragFirst, fragMiddle, fragLast, fragMiddle>>
    /\ \A j \in 1..3 : fseq[j].err = "nil"
    /\ fseq[4].err = "ErrInvalidFragmentation"

\* the message state of the driver that is fed
FedMs == IF lastFrame.driver = "sync" THEN sst.ms ELSE ams.ms

\* C9 as stated: after any control frame, in either driver, the message state is
\* what it was before the frame
C9_ControlKeepsState ==
    (lastFrame.n > 0 /\ isControl(lastFrame.frame)) => FedMs = lastFrame.before

\* C9: a control frame leaves prev_fragment, opcode, compressed and the
\* accumulated payload as they were, in the async driver always and in the sync
\* driver whenever the read goes on after the frame
C9_ControlKeepsStateWhileReading ==
    (/\ lastFrame.n > 0
     /\ isControl(lastFrame.frame)
     /\ (lastFrame.driver = "sync" => sst.open))
        => FedMs = lastFrame.before

\* a Ping arrived inside an open group that already holds payload bytes, and the
\* read went on
C9_Witness ==
    /\ lastFrame.n > 0
    /\ lastFrame.frame.opcode = Ping
    /\ lastFrame.driver = "sync" /\ sst.open
    /\ sst.ms.prevFrameFragment = fragMiddle
    /\ sst.ms.payload = <<195, 195>>
    /\ Len(sst.written) = 1

(***************************************************************************)
(* SpecRead: Conn.Read calls on a net.Conn on which the peer's frames      *)
(* arrive, some of them after the read deadline; an AsyncConn receives the *)
(* same bytes in one call.                                                 *)
(***************************************************************************)

MaxStreamFrames == 3

ConnResult(s, r) == [s |-> s, fr |-> r]

RECURSIVE ConnRead(_, _, _)
\* after a turn of the loop of Conn.read: it returned a message or an error, or
\* it reads the next frame
ConnReadNext(s, s2, r, ok) ==
    IF ~s2.open \/ Len(s2.ret) > Len(s.ret) THEN ConnResult(s2, r) ELSE ConnRead(s2, r, ok)

\* Conn.readFrame on what FrameReader.Read returned, and the turn of Conn.read
\* for the frame
readFrame(s, res, ok) ==
    IF res.kind = "frame" THEN ConnReadNext(s, connRead(s, res.frame, ok), res.rd, ok)
    ELSE IF res.kind = "os.ErrDeadlineExceeded"
    THEN \* onReadDeadlineExceeded
         IF ok THEN ConnRead(connWrite(s, Ping, <<>>, ok), res.rd, ok)
         ELSE ConnResult(connFail(s, "ErrWrite"), res.rd)
    ELSE IF res.kind = "eof" THEN ConnResult(connFail(s, "io.EOF"), res.rd)
    ELSE IF res.kind = "err" THEN ConnResult(connFail(s, res.err), res.rd)
    ELSE ConnResult(connFail(s, res.kind), res.rd)

\* Conn.Read: ok tells whether the net.Conn takes the bytes written
ConnRead(s, r, ok) == readFrame(s, newFrame(r), ok)

\* the frames of the peer: the fragments of a Text message, a Text message that
\* is not valid UTF-8, a Binary message, a Ping with a payload, a Pong and a Close
peerFirst == ParsedFrame(Text, FALSE, <<72>>)
peerMiddle == ParsedFrame(Continuation, FALSE, <<105>>)
peerLast == ParsedFrame(Continuation, TRUE, <<33>>)
peerPing == ParsedFrame(Ping, TRUE, <<65>>)
peerPong == ParsedFrame(Pong, TRUE, <<>>)
peerClose == ParsedFrame(Close, TRUE, <<3, 232>>)
PeerFrames ==
    {peerFirst, peerMiddle, peerLast, peerPing, peerPong, peerClose,
     ParsedFrame(Text, TRUE, <<195>>), ParsedFrame(Binary, TRUE, <<7>>)}

\* the frames of fragmentedMessage: First, Ping, Middle, Pong, Last
fragmentedFrames ==
    <<ParsedFrame(Text, FALSE, <<72>>), ParsedFrame(Ping, TRUE, <<>>),
      ParsedFrame(Continuation, FALSE, <<101, 108, 108>>), ParsedFrame(Pong, TRUE, <<>>),
      ParsedFrame(Continuation, TRUE, <<111, 33>>)>>

RECURSIVE WireOf(_)
WireOf(frames) ==
    IF frames = <<>> THEN <<>> ELSE Wire(encode(Head(frames))) \o WireOf(Tail(frames))

\* the positions whose bytes arrive late: none, or one of them
Lates(n) == {{}} \cup {{i} : i \in 1..n}

InitRead ==
    /\ InitIdleAio /\ InitIdleAsync /\ InitIdleSeb /\ InitIdleCodec
    /\ ams = NewAsyncConn
    /\ sst = NewConn
    /\ fseq = <<>>
    /\ lastFrame = NoFeed
    /\ \E frames \in SeqsUpTo(PeerFrames, MaxStreamFrames) \cup {fragmentedFrames} :
         \E late \in Lates(Len(WireOf(frames))) :
            /\ peer = [frames |-> frames,
                       stream |-> [i \in 1..Len(WireOf(frames)) |->
                                        [b |-> WireOf(frames)[i], late |-> i \in late]],
                       fed |-> FALSE, wfail |-> FALSE]
            /\ fr = [in |-> peer.stream, frameBytes |-> 0]

\* the bytes of a stream
BytesOf(stream) == [i \in 1..Len(stream) |-> stream[i].b]

\* one Conn.Read call; from stop on the net.Conn takes no more writes
SyncRead ==
    /\ sst.open
    /\ \E stop \in BOOLEAN :
        LET wfail == peer.wfail \/ stop
            r == ConnRead([sst EXCEPT !.err = "nil"], fr, ~wfail)
        IN  /\ sst' = r.s
            /\ fr' = r.fr
            /\ peer' = [peer EXCEPT !.wfail = wfail]
    /\ UNCHANGED <<ams, fseq, lastFrame>>

\* the AsyncConn receives everything the peer sent in one Received call
AsyncWhole ==
    /\ ~peer.fed
    /\ ams' = Received(ams, BytesOf(peer.stream))
    /\ peer' = [peer EXCEPT !.fed = TRUE]
    /\ UNCHANGED <<sst, fr, fseq, lastFrame>>

NextRead ==
    \/ SyncRead /\ UNCHANGED <<aioVars, asyncVars, codecVars, sebVars>>
    \/ AsyncWhole /\ UNCHANGED <<aioVars, asyncVars, codecVars, sebVars>>

SpecRead == InitRead /\ [][NextRead]_vars

(***************************************************************************)
(* seb: the event writer (writer, Event.encode) and SpecSeb: events are    *)
(* encoded into one writer over a buffer, which is reset now and then.     *)
(***************************************************************************)

MaxEventBuf == 48
MaxBody == 3

\* Operation and EventType constants
OpEvent == 1
StateEvent == 1

\* binary.LittleEndian.PutUint64, PutUint32
RECURSIVE LittleEndian(_, _)
LittleEndian(v, l) == IF l = 0 THEN <<>> ELSE <<v % 256>> \o LittleEndian(v \div 256, l - 1)

\* writer.available
wAvailable(w) == Len(w.buf) - w.tail

\* writer.enoughSpace: the answer, and the writer it leaves when the answer is no
wEnoughSpace(w, l) == w.err = "nil" /\ wAvailable(w) >= l
wNoSpace(w) == IF w.err # "nil" THEN w ELSE [w EXCEPT !.err = "ErrInsufficientBuffer"]

\* the body of the Put methods: the bytes go to buf[tail:tail+l], tail moves on
wPut(w, bytes) ==
    IF ~wEnoughSpace(w, Len(bytes)) THEN wNoSpace(w)
    ELSE [w EXCEPT !.buf = [i \in 1..Len(w.buf) |->
                               IF i > w.tail /\ i <= w.tail + Len(bytes)
                               THEN bytes[i - w.tail] ELSE w.buf[i]],
                   !.tail = w.tail + Len(bytes)]

wPutByte(w, v) == wPut(w, <<v>>)
wPutUint64(w, v) == wPut(w, LittleEndian(v, 8))
wPutUint32(w, v) == wPut(w, LittleEndian(v, 4))
wPutSlice(w, v) == wPut(wPutUint32(w, Len(v)), v)

\* writer.Done that moves head whatever the error
wDone_Always(w) == [w EXCEPT !.head = w.tail]

\* writer.Done; the error is what it returns
wDone(w) == IF w.err = "nil" THEN [w EXCEPT !.head = w.tail] ELSE w

\* writer.reset
wReset(w) == [w EXCEPT !.tail = w.head, !.err = "nil"]

\* Event.encode
eventEncode(e, w) ==
    wDone(wPutSlice(wPutByte(wPutUint64(wPutUint64(wPutByte(w, OpEvent), e.Sequence),
                                     e.Timestamp), e.Type), e.Body))

\* Event.FrameLen
FrameLen(e) == 1 + 8 + 8 + 1 + 4 + Len(e.Body)

Events ==
    {[Sequence |-> 1, Timestamp |-> 2, Type |-> StateEvent, Body |-> [i \in 1..n |-> 9]] :
        n \in 0..MaxBody}

InitSeb ==
    /\ InitIdleAio /\ InitIdleAsync /\ InitIdleFrames /\ InitIdleCodec
    /\ \E n \in 0..MaxEventBuf :
         ew = [buf |-> [i \in 1..n |-> 0], head |-> 0, tail |-> 0, err |-> "nil",
               last |-> "none"]

\* e.encode(w)
EventEncode ==
    \E e \in Events :
        ew' = [eventEncode(e, ew) EXCEPT !.last = "encode"]

\* w.reset()
WriterReset ==
    ew' = [wReset(ew) EXCEPT !.last = "reset"]

NextSeb ==
    \/ EventEncode /\ UNCHANGED <<aioVars, asyncVars, framesVars, codecVars>>
    \/ WriterReset /\ UNCHANGED <<aioVars, asyncVars, framesVars, codecVars>>

SpecSeb == InitSeb /\ [][NextSeb]_vars

(***************************************************************************)
(* aio: TcpListener, TcpConn and the kernel operations on their fds.  A    *)
(* completion action is the kernel posting one completion and the loop     *)
(* running its callback; completions are dispatched in the order the       *)
(* kernel posts them.                                                      *)
(***************************************************************************)

MaxConns == 1
MaxSends == 1
MaxSendLen == 2

\* Options.RecvBuffersCount
RecvBuffersCount == 8

ConnIds == 1..MaxConns

\* a TcpConn and its fd.  st: "free" until accepted, then "live"; recv: the
\* multishot recvs armed (callbacks registered); send: bytes the send in flight still has to write;
\* phase: "none", "shutdown" (shutdown posted), "close" (close posted), "done";
\* sends, sentCalls, closedCalls, closedCause: the upstream's Send calls and the
\* callbacks it got; shutdownPosted: PrepareShutdown calls; log: the steps of the
\* handler that is running
newTcpConn ==
    [st |-> "free", up |-> "nil", shutdownError |-> "nil", recv |-> 0, send |-> 0,
     phase |-> "none", sends |-> 0, sentCalls |-> 0, closedCalls |-> 0,
     closedCause |-> "nil", shutdownPosted |-> 0, log |-> <<>>]

Log(t, ev) == [t EXCEPT !.log = Append(t.log, ev)]

\* TcpConn.shutdown without the latch
shutdown_NoLatch(t, err) ==
    [Log(Log(t, <<"shutdown", err>>), <<"prepare", "shutdown">>)
        EXCEPT !.shutdownError = err, !.phase = "shutdown",
               !.shutdownPosted = t.shutdownPosted + 1]

\* TcpConn.shutdown
shutdown(t, err) ==
    IF t.shutdownError # "nil" THEN Log(t, <<"shutdown", err>>)
    ELSE [Log(Log(t, <<"shutdown", err>>), <<"prepare", "shutdown">>)
            EXCEPT !.shutdownError = err, !.phase = "shutdown",
                   !.shutdownPosted = t.shutdownPosted + 1]

\* loop.PrepareRecv: one more multishot recv armed on the fd
PrepareRecv(t) == [Log(t, <<"prepare", "recv">>) EXCEPT !.recv = t.recv + 1]

\* TcpConn.Bind that starts a receive loop every time
Bind_Restarts(t, up) == PrepareRecv([t EXCEPT !.up = up])

\* TcpConn.Bind: the first upstream starts the receive loop
Bind(t, up) ==
    IF t.up # "nil" THEN [t EXCEPT !.up = up] ELSE PrepareRecv([t EXCEPT !.up = up])

\* TcpConn.Send
Send(t) ==
    [Log(t, <<"prepare", "send">>) EXCEPT !.send = MaxSendLen, !.sends = t.sends + 1]

\* an upstream that waits for Sent before the next Send, and sends nothing after
\* Closed; only the "ws" upstream sends
MaySend(t) ==
    t.st = "live" /\ t.up = "ws" /\ t.closedCalls = 0 /\ t.sends = t.sentCalls /\ t.sends < MaxSends

\* what the upstream does inside Received: nothing, echo with Send, or Close
Reacts(t) == {"none", "close"} \cup (IF MaySend(t) THEN {"send"} ELSE {})

\* Upstream.Received
upReceived(t, react) ==
    LET t1 == Log(t, <<"received">>)
    IN  IF react = "send" THEN Send(t1)
        ELSE IF react = "close" THEN shutdown(t1, "ErrUpstreamClose")
        ELSE t1

\* a completion without the MORE flag takes the callback out of the registry
Final(t, more) == IF more THEN t ELSE [t EXCEPT !.recv = t.recv - 1]

\* the recvLoop callback that releases the buffer only after re-arming
recvData_LateRelease(t, more, react) ==
    LET t1 == upReceived(Log(Final(t, more), <<"get">>), react)
    IN  IF more THEN Log(t1, <<"release">>)
        ELSE Log(PrepareRecv(t1), <<"release">>)

\* the recvLoop callback that never prepares the recv again
recvData_NoRearm(t, more, react) ==
    Log(upReceived(Log(Final(t, more), <<"get">>), react), <<"release">>)

\* the recvLoop callback that prepares the recv again after every chunk
recvData_AlwaysRearm(t, more, react) ==
    PrepareRecv(Log(upReceived(Log(Final(t, more), <<"get">>), react), <<"release">>))

\* the recvLoop callback for res > 0
recvData(t, more, react) ==
    LET t1 == Log(upReceived(Log(Final(t, more), <<"get">>), react), <<"release">>)
    IN  IF more THEN t1 ELSE PrepareRecv(t1)

\* errnos a completion may carry: one temporary, one other (the reset)
Errnos == {"EAGAIN", "ECONNRESET"}

\* TemporaryErrno
TemporaryErrno(errno) ==
    errno \in {"EAGAIN", "EINTR", "EMFILE", "ENFILE", "ETIMEDOUT", "ETIME", "ENOBUFS"}

\* the recvLoop callback that reports every end of the stream as io.EOF
recvFail_AlwaysEof(t, errno) ==
    LET t1 == Log(Final(t, FALSE), <<"cqe", errno>>)
    IN  IF errno # "nil" /\ TemporaryErrno(errno) THEN PrepareRecv(t1)
        ELSE shutdown(t1, "io.EOF")

\* the recvLoop callback for an errno, or for res = 0 (errno "nil"); such a
\* completion never has the MORE flag
recvFail(t, errno) ==
    LET t1 == Log(Final(t, FALSE), <<"cqe", errno>>)
    IN  IF errno # "nil"
        THEN IF TemporaryErrno(errno) THEN PrepareRecv(t1) ELSE shutdown(t1, errno)
        ELSE shutdown(t1, "io.EOF")

\* the Send callback that reports Sent on an error too
onSend_SentOnError(t, res, errno) ==
    IF errno
    THEN shutdown([Log(t, <<"sent">>) EXCEPT !.send = 0, !.sentCalls = t.sentCalls + 1], "ECONNRESET")
    ELSE IF res >= t.send
    THEN [Log(t, <<"sent">>) EXCEPT !.send = 0, !.sentCalls = t.sentCalls + 1]
    ELSE [Log(t, <<"prepare", "send">>) EXCEPT !.send = t.send - res]

\* the Send callback that reports Sent on the first completion
onSend_SentEarly(t, res, errno) ==
    IF errno THEN shutdown([t EXCEPT !.send = 0], "ECONNRESET")
    ELSE [Log(t, <<"sent">>) EXCEPT !.send = 0, !.sentCalls = t.sentCalls + 1]

\* the Send callback that drops an error
onSend_DropError(t, res, errno) ==
    IF errno THEN [t EXCEPT !.send = 0]
    ELSE IF res >= t.send
    THEN [Log(t, <<"sent">>) EXCEPT !.send = 0, !.sentCalls = t.sentCalls + 1]
    ELSE [Log(t, <<"prepare", "send">>) EXCEPT !.send = t.send - res]

\* the Send callback
onSend(t, res, errno) ==
    IF errno THEN shutdown([t EXCEPT !.send = 0], "ECONNRESET")
    ELSE IF res >= t.send
    THEN [Log(t, <<"sent">>) EXCEPT !.send = 0, !.sentCalls = t.sentCalls + 1]
    ELSE [Log(t, <<"prepare", "send">>) EXCEPT !.send = t.send - res]

\* the end of the connection without the call of Closed
upClosed_Silent(t) == [t EXCEPT !.phase = "done"]

\* up.Closed(tc.shutdownError)
upClosed(t) ==
    [Log(t, <<"closed", t.shutdownError>>)
        EXCEPT !.phase = "done", !.closedCalls = t.closedCalls + 1,
               !.closedCause = t.shutdownError]

\* count of the steps ev in a handler's log
Count(log, ev) == Cardinality({i \in 1..Len(log) : log[i] = ev})

\* the handler on connection c ends: its log is kept when the log is on, and its
\* net effect on the ring
Ran(c, t) ==
    /\ conn' = [conn EXCEPT ![c] = [t EXCEPT !.log = <<>>]]
    /\ hlog' = IF hlog.on THEN [hlog EXCEPT !.c = c, !.ev = t.log] ELSE hlog
    /\ ring' = (ring - Count(t.log, <<"get">>)) + Count(t.log, <<"release">>)

\* New: no listeners, no connections; Run not called
NewLoop == [ctx |-> "live", run |-> "none", listeners |-> {}, connections |-> {},
            dial |-> "none", inPackage |-> FALSE]

InitAio ==
    /\ lsn = [accept |-> "armed", cancel |-> "none", shutdownConnections |-> TRUE,
             conns |-> {}]
    /\ conn = [c \in ConnIds |-> newTcpConn]
    /\ ring = RecvBuffersCount
    /\ \E on \in BOOLEAN : hlog = [on |-> on, c |-> 0, ev |-> <<>>]
    /\ loop = NewLoop
    /\ rg = <<>>
    /\ wv = <<>>

\* the handler log is on
Init == InitAio /\ hlog.on /\ InitIdleAsync /\ InitIdleSeb /\ InitIdleFrames /\ InitIdleCodec

\* the handler log is off
InitQuiet == InitAio /\ ~hlog.on /\ InitIdleAsync /\ InitIdleSeb /\ InitIdleFrames /\ InitIdleCodec

Idle == UNCHANGED <<rg, wv, asyncVars, framesVars, codecVars, sebVars>>

NoHandlerLog == [hlog EXCEPT !.c = 0, !.ev = <<>>]

\* TcpListener.remove; in the Loop of Run, the closure given to newTcpConn, which
\* deletes the fd from the connections of its parent
remove(c) ==
    /\ lsn' = [lsn EXCEPT !.conns = lsn.conns \ {c}]
    /\ loop' = IF loop.run = "none" THEN loop
               ELSE [loop EXCEPT !.connections = loop.connections \ {c}]

\* the accept callback with errno = 0: newTcpConn, the accepted callback binds the
\* upstream, and the connection joins conns.  fds are handed out lowest first.
Accept(c) ==
    /\ lsn.accept = "armed"
    /\ conn[c].st = "free"
    /\ \A d \in ConnIds : d < c => conn[d].st # "free"
    /\ Ran(c, Bind([newTcpConn EXCEPT !.st = "live"], "ws"))
    /\ lsn' = [lsn EXCEPT !.conns = lsn.conns \cup {c}]
    /\ UNCHANGED loop
    /\ Idle

\* the accept callback with an errno (ECANCELED or any other): the multishot
\* accept has ended and is not armed again
AcceptEnds ==
    /\ lsn.accept = "armed"
    /\ lsn' = [lsn EXCEPT !.accept = "none"]
    /\ hlog' = NoHandlerLog
    /\ UNCHANGED <<conn, ring, loop>>
    /\ Idle

\* TcpListener.Close: PrepareCancelFd
ListenerClose ==
    /\ lsn.cancel = "none"
    /\ lsn' = [lsn EXCEPT !.cancel = "posted"]
    /\ hlog' = NoHandlerLog
    /\ UNCHANGED <<conn, ring, loop>>
    /\ Idle

\* the cancel callback: shutdown(ErrListenerClose) on every connection in conns
CancelComplete ==
    /\ lsn.cancel = "posted"
    /\ lsn' = [lsn EXCEPT !.cancel = "done"]
    /\ conn' = [c \in ConnIds |->
                  IF c \in lsn.conns
                  THEN [shutdown(conn[c], "ErrListenerClose") EXCEPT !.log = <<>>]
                  ELSE conn[c]]
    /\ hlog' = NoHandlerLog
    /\ UNCHANGED <<ring, loop>>
    /\ Idle

\* the recv callback with res > 0: data that reached the socket before it was
\* shut down, in a provided buffer, with or without the MORE flag
RecvData(c) ==
    /\ conn[c].recv > 0
    /\ conn[c].phase \in {"none", "shutdown"}
    /\ ring > 0
    /\ \E more \in BOOLEAN, react \in Reacts(conn[c]) :
          Ran(c, recvData(conn[c], more, react))
    /\ UNCHANGED <<lsn, loop>>
    /\ Idle

\* the recv callback with a temporary errno: recv is prepared again
RecvTemporary(c) ==
    /\ conn[c].recv > 0
    /\ conn[c].phase # "done"
    /\ \E errno \in {e \in Errnos : TemporaryErrno(e)} : Ran(c, recvFail(conn[c], errno))
    /\ UNCHANGED <<lsn, loop>>
    /\ Idle

\* the recv callback with res = 0 or a fatal errno: shutdown, no new recv
RecvEnds(c) ==
    /\ conn[c].recv > 0
    /\ \E errno \in {"nil"} \cup {e \in Errnos : ~TemporaryErrno(e)} :
          Ran(c, recvFail(conn[c], errno))
    /\ UNCHANGED <<lsn, loop>>
    /\ Idle

\* the send callback: res bytes written while the socket is not shut down, or
\* an errno (res = 0)
SendComplete(c) ==
    /\ conn[c].send > 0
    /\ \E res \in 0..conn[c].send :
          /\ res > 0 => conn[c].phase \in {"none", "shutdown"}
          /\ Ran(c, onSend(conn[c], res, res = 0))
    /\ UNCHANGED <<lsn, loop>>
    /\ Idle

\* the shutdown callback: errno = 0 prepares close, an errno ends the connection
ShutdownComplete(c) ==
    /\ conn[c].phase = "shutdown"
    /\ \E errno \in BOOLEAN :
          IF errno
          THEN Ran(c, upClosed(conn[c])) /\ remove(c)
          ELSE /\ Ran(c, [Log(conn[c], <<"prepare", "close">>) EXCEPT !.phase = "close"])
               /\ UNCHANGED <<lsn, loop>>
    /\ Idle

\* the close callback
CloseComplete(c) ==
    /\ conn[c].phase = "close"
    /\ Ran(c, upClosed(conn[c]))
    /\ remove(c)
    /\ Idle

\* the upstream calls Send outside Received
AppSend(c) ==
    /\ MaySend(conn[c])
    /\ Ran(c, Send(conn[c]))
    /\ UNCHANGED <<lsn, loop>>
    /\ Idle

\* the upstream calls Close outside Received: TcpConn.Close
AppClose(c) ==
    /\ conn[c].st = "live"
    /\ conn[c].closedCalls = 0
    /\ Ran(c, shutdown(conn[c], "ErrUpstreamClose"))
    /\ UNCHANGED <<lsn, loop>>
    /\ Idle

Next ==
    \/ \E c \in ConnIds : Accept(c)
    \/ AcceptEnds
    \/ ListenerClose
    \/ CancelComplete
    \/ \E c \in ConnIds : RecvData(c)
    \/ \E c \in ConnIds : RecvTemporary(c)
    \/ \E c \in ConnIds : RecvEnds(c)
    \/ \E c \in ConnIds : SendComplete(c)
    \/ \E c \in ConnIds : ShutdownComplete(c)
    \/ \E c \in ConnIds : CloseComplete(c)
    \/ \E c \in ConnIds : AppSend(c)
    \/ \E c \in ConnIds : AppClose(c)

Spec == Init /\ [][Next]_vars

\* the kernel completes every send, shutdown and close it was given; the handler
\* log is off
FairSpec ==
    /\ InitQuiet
    /\ [][Next]_vars
    /\ \A c \in ConnIds :
        WF_vars(SendComplete(c)) /\ WF_vars(ShutdownComplete(c)) /\ WF_vars(CloseComplete(c))

(***************************************************************************)
(* Loop.Run with one TCPListener and one Dial: the loop runs until the      *)
(* context is done, closes what is pending and runs until no callback is    *)
(* left.  The connections are the TcpConn above; the accepted and the       *)
(* dialed callback decide whether to Bind; the upstreams do not send.       *)
(***************************************************************************)

\* the upstreams a connection is bound to, in turn; they receive and close, and
\* send nothing
Upstreams == {"handshake", "upgraded"}

\* Listen: the listener joins loop.listeners and arms its accept; Run is called
\* late: the accept that is armed was prepared after the cancel of the listener's
\* fd was, so the cancel does not end it
InitRun(on) ==
    /\ lsn = [accept |-> "armed", cancel |-> "none", shutdownConnections |-> TRUE,
             conns |-> {}, late |-> FALSE]
    /\ conn = [c \in ConnIds |-> newTcpConn]
    /\ ring = RecvBuffersCount
    /\ hlog = [on |-> on, c |-> 0, ev |-> <<>>]
    /\ loop = [NewLoop EXCEPT !.run = "runCtx", !.listeners = {"lsn"}, !.inPackage = on]
    /\ rg = <<>>
    /\ wv = <<>>
    /\ InitIdleAsync /\ InitIdleSeb /\ InitIdleFrames /\ InitIdleCodec

\* runCtx and runUntilDone dispatch completions; after Run the loop is at rest
Running == loop.run \in {"runCtx", "runUntilDone"}

\* callbacks.count() = 0: no operation is in flight
NoCallbacks ==
    /\ lsn.accept # "armed" /\ lsn.cancel # "posted"
    /\ loop.dial \notin {"socket", "connect"}
    /\ \A c \in ConnIds :
          conn[c].recv = 0 /\ conn[c].send = 0 /\ conn[c].phase \notin {"shutdown", "close"}

\* the context is cancelled
CtxCancel ==
    /\ loop.ctx = "live"
    /\ loop' = [loop EXCEPT !.ctx = "done"]
    /\ hlog' = NoHandlerLog
    /\ UNCHANGED <<lsn, conn, ring>>
    /\ Idle

\* runCtx sees the context done: closePendingConnections closes every listener
\* and every connection of the loop, and runUntilDone takes over
closePendingConnections ==
    /\ loop.run = "runCtx" /\ loop.ctx = "done"
    /\ lsn' = IF loop.listeners # {}
              THEN [lsn EXCEPT !.cancel = "posted", !.shutdownConnections = TRUE]
              ELSE lsn
    /\ conn' = [c \in ConnIds |->
                  IF c \in loop.connections
                  THEN [shutdown(conn[c], "ErrUpstreamClose") EXCEPT !.log = <<>>]
                  ELSE conn[c]]
    /\ loop' = [loop EXCEPT !.run = "runUntilDone"]
    /\ hlog' = NoHandlerLog
    /\ UNCHANGED ring
    /\ Idle

\* runUntilDone that returns nil whatever is left in the loop's maps
runUntilDone_NoPanic ==
    /\ loop.run = "runUntilDone"
    /\ NoCallbacks
    /\ loop' = [loop EXCEPT !.run = "returned"]
    /\ hlog' = NoHandlerLog
    /\ UNCHANGED <<lsn, conn, ring>>
    /\ Idle

\* runUntilDone with no callback left: panic if a listener or a connection is
\* still in the loop's maps, else Run returns nil
runUntilDone ==
    /\ loop.run = "runUntilDone"
    /\ NoCallbacks
    /\ loop' = [loop EXCEPT !.run = IF loop.connections # {} \/ loop.listeners # {}
                                     THEN "panic" ELSE "returned"]
    /\ hlog' = NoHandlerLog
    /\ UNCHANGED <<lsn, conn, ring>>
    /\ Idle

\* submit, WaitCQEs or submitAndWait returns an error that is not temporary:
\* runCtx or runUntilDone, which calls runOnce only while a callback is left,
\* returns it and so does Run
runFails ==
    /\ Running
    /\ loop.run = "runUntilDone" => ~NoCallbacks
    /\ loop' = [loop EXCEPT !.run = "error"]
    /\ hlog' = NoHandlerLog
    /\ UNCHANGED <<lsn, conn, ring>>
    /\ Idle

\* the accept callback without error: newTcpConn, the accepted callback (which
\* binds an upstream or leaves the connection unbound), then l.connections[fd]
accept(c) ==
    /\ Running
    /\ lsn.accept = "armed"
    /\ conn[c].st = "free"
    /\ \A d \in ConnIds : d < c => conn[d].st # "free"
    /\ \E bind \in BOOLEAN :
          LET tc == Log([newTcpConn EXCEPT !.st = "live"], <<"accepted">>)
          IN  Ran(c, IF bind THEN Bind(tc, "handshake") ELSE tc)
    /\ lsn' = [lsn EXCEPT !.conns = lsn.conns \cup {c}]
    /\ UNCHANGED loop
    /\ Idle

\* the accept callback that gives up on a temporary error
acceptFails_NoRearm ==
    /\ Running
    /\ lsn.accept = "armed" /\ lsn.cancel = "none"
    /\ \E errno \in Errnos :
          /\ lsn' = [lsn EXCEPT !.accept = "none"]
          /\ hlog' = IF hlog.on THEN [hlog EXCEPT !.c = 0, !.ev = <<<<"cqe", errno>>>>]
                     ELSE hlog
    /\ UNCHANGED <<conn, ring, loop>>
    /\ Idle

\* the accept callback with an error other than ECANCELED: the multishot accept
\* has ended; a Temporary error prepares it again, also when the listener is
\* being closed or is closed, any other is only logged
acceptFails ==
    /\ Running
    /\ lsn.accept = "armed"
    /\ \E errno \in Errnos :
          /\ lsn' = [lsn EXCEPT !.accept = IF TemporaryErrno(errno) THEN "armed" ELSE "none",
                                !.late = TemporaryErrno(errno) /\ lsn.cancel # "none"]
          /\ hlog' = IF hlog.on
                     THEN [hlog EXCEPT !.c = 0,
                             !.ev = IF TemporaryErrno(errno)
                                    THEN <<<<"cqe", errno>>, <<"prepare", "accept">>>>
                                    ELSE <<<<"cqe", errno>>>>]
                     ELSE hlog
    /\ UNCHANGED <<conn, ring, loop>>
    /\ Idle

\* the accept callback with ECANCELED, the kernel's answer to the cancel of the
\* listener's fd: nothing
acceptCanceled ==
    /\ Running
    /\ lsn.accept = "armed" /\ lsn.cancel = "posted" /\ ~lsn.late
    /\ lsn' = [lsn EXCEPT !.accept = "none"]
    /\ hlog' = IF hlog.on THEN [hlog EXCEPT !.c = 0, !.ev = <<<<"cqe", "ECANCELED">>>>]
               ELSE hlog
    /\ UNCHANGED <<conn, ring, loop>>
    /\ Idle

\* TCPListener.Close, which is close(true), called while the context is live;
\* a caller inside the package (its tests) may call close(false) instead:
\* prepareCancelFd
AppListenerClose ==
    /\ Running
    /\ loop.ctx = "live" /\ loop.listeners # {} /\ lsn.cancel = "none"
    /\ \E shutdownConnections \in {TRUE} \cup {~loop.inPackage} :
          lsn' = [lsn EXCEPT !.cancel = "posted", !.shutdownConnections = shutdownConnections]
    /\ hlog' = NoHandlerLog
    /\ UNCHANGED <<conn, ring, loop>>
    /\ Idle

\* the cancel callback that shuts the connections down whatever it was told
close_ShutsAlways ==
    /\ Running
    /\ lsn.cancel = "posted" /\ (lsn.accept = "none" \/ lsn.late)
    /\ lsn' = [lsn EXCEPT !.cancel = "done"]
    /\ conn' = [c \in ConnIds |->
                  IF c \in lsn.conns
                  THEN [shutdown(conn[c], "ErrListenerClose") EXCEPT !.log = <<>>]
                  ELSE conn[c]]
    /\ loop' = [loop EXCEPT !.listeners = {}]
    /\ \E err \in {"nil", "ENOENT"} :
          hlog' = IF hlog.on THEN [hlog EXCEPT !.c = 0, !.ev = <<<<"cancel", err>>>>] ELSE hlog
    /\ UNCHANGED ring
    /\ Idle

\* the callback of the cancel that TCPListener.close prepared, which the kernel
\* completes, with or without an error, after the accept it cancelled (an
\* accept prepared after the cancel stays armed): if told
\* so, shutdown of every connection of the listener; then the listener leaves
\* loop.listeners
close ==
    /\ Running
    /\ lsn.cancel = "posted" /\ (lsn.accept = "none" \/ lsn.late)
    /\ lsn' = [lsn EXCEPT !.cancel = "done"]
    /\ conn' = [c \in ConnIds |->
                  IF lsn.shutdownConnections /\ c \in lsn.conns
                  THEN [shutdown(conn[c], "ErrListenerClose") EXCEPT !.log = <<>>]
                  ELSE conn[c]]
    /\ loop' = [loop EXCEPT !.listeners = {}]
    /\ \E err \in {"nil", "ENOENT"} :
          hlog' = IF hlog.on THEN [hlog EXCEPT !.c = 0, !.ev = <<<<"cancel", err>>>>] ELSE hlog
    /\ UNCHANGED ring
    /\ Idle

\* Loop.Dial, called while the context is live: prepareStreamSocket
Dial ==
    /\ Running
    /\ loop.ctx = "live" /\ loop.dial = "none"
    /\ loop' = [loop EXCEPT !.dial = "socket"]
    /\ hlog' = NoHandlerLog
    /\ UNCHANGED <<lsn, conn, ring>>
    /\ Idle

\* the socket callback: prepareConnect, or dialed(err)
DialSocket ==
    /\ Running
    /\ loop.dial = "socket"
    /\ \E err \in BOOLEAN : loop' = [loop EXCEPT !.dial = IF err THEN "failed" ELSE "connect"]
    /\ hlog' = NoHandlerLog
    /\ UNCHANGED <<lsn, conn, ring>>
    /\ Idle

\* the connect callback with an error: dialed(err)
DialFails ==
    /\ Running
    /\ loop.dial = "connect"
    /\ loop' = [loop EXCEPT !.dial = "failed"]
    /\ hlog' = NoHandlerLog
    /\ UNCHANGED <<lsn, conn, ring>>
    /\ Idle

\* the connect callback without error: newTcpConn, l.connections[fd], and the
\* dialed callback, which binds an upstream or leaves the connection unbound
DialConnect(c) ==
    /\ Running
    /\ loop.dial = "connect"
    /\ conn[c].st = "free"
    /\ \A d \in ConnIds : d < c => conn[d].st # "free"
    /\ \E bind \in BOOLEAN :
          LET tc == Log([newTcpConn EXCEPT !.st = "live"], <<"dialed">>)
          IN  Ran(c, IF bind THEN Bind(tc, "handshake") ELSE tc)
    /\ loop' = [loop EXCEPT !.dial = "done", !.connections = loop.connections \cup {c}]
    /\ UNCHANGED lsn
    /\ Idle

\* the upstream calls Bind, for the first time or to replace itself
AppBind(c) ==
    /\ Running
    /\ conn[c].st = "live" /\ conn[c].closedCalls = 0
    /\ \E up \in Upstreams : Ran(c, Bind(conn[c], up))
    /\ UNCHANGED <<lsn, loop>>
    /\ Idle

NextRun ==
    \/ CtxCancel
    \/ closePendingConnections
    \/ runUntilDone
    \/ \E c \in ConnIds : accept(c)
    \/ acceptFails
    \/ acceptCanceled
    \/ AppListenerClose
    \/ close
    \/ Dial
    \/ DialSocket
    \/ DialFails
    \/ \E c \in ConnIds : DialConnect(c)
    \/ \E c \in ConnIds : AppBind(c)
    \/ \E c \in ConnIds : Running /\ RecvData(c)
    \/ \E c \in ConnIds : Running /\ RecvTemporary(c)
    \/ \E c \in ConnIds : Running /\ RecvEnds(c)
    \/ \E c \in ConnIds : Running /\ ShutdownComplete(c)
    \/ \E c \in ConnIds : Running /\ CloseComplete(c)
    \/ \E c \in ConnIds : Running /\ AppClose(c)

\* the handler log is on, the caller is inside the package and the ring can
\* fail
SpecRun == InitRun(TRUE) /\ [][NextRun \/ runFails]_vars

\* the loop takes its steps and the kernel completes the cancel, the Dial, every
\* shutdown and close, and every recv on a socket that was shut down; the
\* handler log is off, the caller is outside the package and the ring does
\* not fail
FairRun ==
    /\ InitRun(FALSE)
    /\ [][NextRun]_vars
    /\ WF_vars(closePendingConnections) /\ WF_vars(runUntilDone)
    /\ WF_vars(acceptCanceled) /\ WF_vars(close)
    /\ WF_vars(DialSocket) /\ WF_vars(DialFails \/ \E c \in ConnIds : DialConnect(c))
    /\ \A c \in ConnIds :
          /\ WF_vars(Running /\ ShutdownComplete(c))
          /\ WF_vars(Running /\ CloseComplete(c))
          /\ WF_vars(Running /\ conn[c].phase # "none" /\ RecvEnds(c))

(***************************************************************************)
(* Loop: preparing operations, the pending queue, the callback registry    *)
(* and the dispatch of completions.  An operation is its id and whether it *)
(* is multishot; its callback is registered under the key callbacks.set    *)
(* gives it when its preparer runs.                                        *)
(***************************************************************************)

RingEntries == 1
MaxOps == 3
MaxCqes == 3

\* callbacks.init: the first keys are reserved
reserved == 65535

\* New
InitRing ==
    /\ lsn = [accept |-> "none", cancel |-> "none", shutdownConnections |-> TRUE,
             conns |-> {}]
    /\ conn = <<>>
    /\ ring = 0
    /\ hlog = [on |-> FALSE, c |-> 0, ev |-> <<>>]
    /\ loop = <<>>
    /\ wv = <<>>
    /\ InitIdleAsync /\ InitIdleSeb /\ InitIdleFrames /\ InitIdleCodec
    /\ rg = [sqes |-> <<>>, pending |-> <<>>, m |-> {}, next |-> reserved,
             inflight |-> {}, cq |-> <<>>, posted |-> 0, calls |-> <<>>, ran |-> <<>>,
             prepared |-> 0 - 1, nilCall |-> FALSE, done |-> FALSE]

\* ring.GetSQE gives an entry
GetSQE(r) == Len(r.sqes) < RingEntries

\* the preparer of an operation: it fills the entry and callbacks.set registers
\* the callback under the next key
opRun(r, op) ==
    [r EXCEPT !.next = r.next + 1, !.m = r.m \cup {r.next + 1},
              !.sqes = Append(r.sqes, r.next + 1),
              !.ran = Append(r.ran, op), !.calls = Append(r.calls, 0)]

RECURSIVE preparePending_KeepsAll(_, _)
\* preparePending that leaves pending as it was
preparePending_KeepsAll(r, prepared) ==
    IF prepared < Len(r.pending) /\ GetSQE(r)
    THEN preparePending_KeepsAll(opRun(r, r.pending[prepared + 1]), prepared + 1)
    ELSE [r EXCEPT !.prepared = prepared]

RECURSIVE preparePending(_, _)
\* preparePending, having prepared the first `prepared` of pending
preparePending(r, prepared) ==
    IF prepared < Len(r.pending) /\ GetSQE(r)
    THEN preparePending(opRun(r, r.pending[prepared + 1]), prepared + 1)
    ELSE [r EXCEPT !.prepared = prepared,
                   !.pending = IF prepared = Len(r.pending) THEN <<>>
                               ELSE SubSeq(r.pending, prepared + 1, Len(r.pending))]

\* ring.SubmitAndWait without error: the kernel takes the entries
ringSubmit(r) ==
    [r EXCEPT !.inflight = r.inflight \cup {r.sqes[i] : i \in 1..Len(r.sqes)},
              !.sqes = <<>>]

\* submitAndWait: if operations are pending, submit and, if that went well,
\* preparePending; then submit (temporary errors are tried again, err2 is a
\* fatal one)
submitAndWait(r, err1, err2) ==
    LET r1 == IF Len(r.pending) > 0 /\ ~err1 THEN preparePending(ringSubmit(r), 0) ELSE r
    IN  IF err2 THEN r1 ELSE ringSubmit(r1)

\* Loop.prepare
prepare(r, op, err1, err2) ==
    IF GetSQE(r) THEN opRun(r, op)
    ELSE LET r1 == submitAndWait(r, err1, err2)
         IN  IF GetSQE(r1) THEN opRun(r1, op)
             ELSE [r1 EXCEPT !.pending = Append(r1.pending, op)]

\* callbacks.get that never deletes
get_KeepsAll(m, cqe) == m

\* callbacks.get: the registry after the callback of cqe was taken
get(m, cqe) == IF cqe.more THEN m ELSE m \ {cqe.ud}

RECURSIVE flushCompletions(_)
\* flushCompletions: every completion in the queue, in order
flushCompletions(r) ==
    IF Len(r.cq) = 0 THEN r
    ELSE LET cqe == Head(r.cq)
             r1 == [r EXCEPT !.cq = Tail(r.cq)]
         IN  IF cqe.ud = 0 THEN flushCompletions(r1)
             ELSE IF cqe.ud \notin r.m THEN [r1 EXCEPT !.nilCall = TRUE]
             ELSE flushCompletions(
                     [r1 EXCEPT !.m = get(r.m, cqe),
                                !.calls[cqe.ud - reserved] = r.calls[cqe.ud - reserved] + 1])

\* some handler, or the application, prepares a new operation
Prepare ==
    /\ rg # <<>>
    /\ ~rg.done
    /\ Len(rg.ran) + Len(rg.pending) < MaxOps
    /\ \E multi \in BOOLEAN, err1 \in BOOLEAN, err2 \in BOOLEAN :
          rg' = prepare(rg, [id |-> Len(rg.ran) + Len(rg.pending) + 1, multi |-> multi],
                        err1, err2)
    /\ UNCHANGED <<lsn, conn, ring, hlog, loop, wv, asyncVars, framesVars, codecVars, sebVars>>

\* runOnce: submitAndWait, then flushCompletions
runOnce ==
    /\ rg # <<>>
    /\ ~rg.done
    /\ \E err1 \in BOOLEAN, err2 \in BOOLEAN :
          rg' = IF err2 THEN submitAndWait(rg, err1, err2)
                ELSE flushCompletions(submitAndWait(rg, err1, err2))
    /\ UNCHANGED <<lsn, conn, ring, hlog, loop, wv, asyncVars, framesVars, codecVars, sebVars>>

\* the kernel completes an operation it holds: a multishot one with or without
\* the MORE flag, any other without
KernelCompletes ==
    /\ rg # <<>>
    /\ rg.posted < MaxCqes
    /\ \E ud \in rg.inflight :
        \E more \in {FALSE} \cup {rg.ran[ud - reserved].multi} :
          rg' = [rg EXCEPT !.cq = Append(rg.cq, [ud |-> ud, more |-> more]),
                           !.posted = rg.posted + 1,
                           !.inflight = IF more THEN rg.inflight ELSE rg.inflight \ {ud}]
    /\ UNCHANGED <<lsn, conn, ring, hlog, loop, wv, asyncVars, framesVars, codecVars, sebVars>>

\* the kernel posts a completion that carries no user data
KernelPostsBare ==
    /\ rg # <<>>
    /\ rg.posted < MaxCqes
    /\ rg' = [rg EXCEPT !.cq = Append(rg.cq, [ud |-> 0, more |-> FALSE]),
                        !.posted = rg.posted + 1]
    /\ UNCHANGED <<lsn, conn, ring, hlog, loop, wv, asyncVars, framesVars, codecVars, sebVars>>

\* runUntilDone finds callbacks.count() == 0 and returns (no listener and no
\* connection is registered here)
runUntilDoneReturns ==
    /\ rg # <<>>
    /\ ~rg.done
    /\ Cardinality(rg.m) = 0
    /\ rg' = [rg EXCEPT !.done = TRUE]
    /\ UNCHANGED <<lsn, conn, ring, hlog, loop, wv, asyncVars, framesVars, codecVars, sebVars>>

NextRing == Prepare \/ runOnce \/ runUntilDoneReturns \/ KernelCompletes \/ KernelPostsBare

SpecRing == InitRing /\ [][NextRing]_vars

(***************************************************************************)
(* TcpConn.SendBuffers (aio/tcp_conn.go): one writev of a vector of byte   *)
(* slices, re-issued until every byte is written.  A byte is named by its  *)
(* position in the concatenation of the slices.                            *)
(***************************************************************************)

MaxBufs == 3
MaxSlice == 2

RECURSIVE Flatten(_)
\* the bytes of a vector of slices, in order
Flatten(v) == IF Len(v) = 0 THEN <<>> ELSE v[1] \o Flatten(Tail(v))

RECURSIVE Slices(_, _)
\* slices of the given lengths, filled with the bytes from + 1, from + 2, ...
Slices(lens, from) ==
    IF Len(lens) = 0 THEN <<>>
    ELSE <<[j \in 1..lens[1] |-> from + j]>> \o Slices(Tail(lens), from + lens[1])

RECURSIVE consume_KeepsEmpty(_, _)
\* consume that trims a slice it has consumed whole instead of dropping it
consume_KeepsEmpty(v, n) ==
    IF Len(v) = 0 THEN v
    ELSE LET ln0 == Len(v[1])
         IN  IF ln0 >= n THEN <<SubSeq(v[1], n + 1, ln0)>> \o Tail(v)
             ELSE consume_KeepsEmpty(Tail(v), n - ln0)

RECURSIVE consume(_, _)
\* consume removes n bytes from the front of a vector of slices
consume(v, n) ==
    IF Len(v) = 0 THEN v
    ELSE LET ln0 == Len(v[1])
         IN  IF ln0 > n THEN <<SubSeq(v[1], n + 1, ln0)>> \o Tail(v)
             ELSE consume(Tail(v), n - ln0)

\* SendBuffers(buffers): PrepareWritev of the whole vector
InitWritev ==
    /\ lsn = [accept |-> "none", cancel |-> "none", shutdownConnections |-> TRUE,
             conns |-> {}]
    /\ conn = <<>>
    /\ ring = 0
    /\ hlog = [on |-> FALSE, c |-> 0, ev |-> <<>>]
    /\ loop = <<>>
    /\ rg = <<>>
    /\ InitIdleAsync /\ InitIdleSeb /\ InitIdleFrames /\ InitIdleCodec
    /\ \E k \in 0..MaxBufs : \E lens \in [1..k -> 0..MaxSlice] :
          wv = [buffers |-> Slices(lens, 0), v |-> Slices(lens, 0), written |-> 0,
                writev |-> TRUE, sentCalls |-> 0, shutdownError |-> "nil", ev |-> "writev"]

\* the writev callback without errno: the kernel wrote res of the bytes it was
\* given; consume, then Sent if nothing is left, else PrepareWritev of the rest
WritevComplete ==
    /\ wv # <<>> /\ wv.writev
    /\ \E res \in 0..Len(Flatten(wv.v)) :
          LET buffers == consume(wv.v, res)
          IN  wv' = IF Len(buffers) = 0
                    THEN [wv EXCEPT !.v = buffers, !.written = wv.written + res,
                                    !.writev = FALSE, !.sentCalls = wv.sentCalls + 1,
                                    !.ev = "sent"]
                    ELSE [wv EXCEPT !.v = buffers, !.written = wv.written + res,
                                    !.ev = "writev"]
    /\ UNCHANGED <<lsn, conn, ring, hlog, loop, rg, asyncVars, framesVars, codecVars, sebVars>>

\* the writev callback with an errno: shutdown(errno)
WritevFails ==
    /\ wv # <<>> /\ wv.writev
    /\ wv' = [wv EXCEPT !.writev = FALSE, !.shutdownError = "ECONNRESET", !.ev = "shutdown"]
    /\ UNCHANGED <<lsn, conn, ring, hlog, loop, rg, asyncVars, framesVars, codecVars, sebVars>>

NextWritev == WritevComplete \/ WritevFails

SpecWritev == InitWritev /\ [][NextWritev]_vars

\* C1: closed is never invoked twice on a connection, and once a cause of
\* shutdown is latched (a receive or send completion, an upstream Close, the
\* listener closing) closed is eventually invoked, exactly once
C1_ClosedExactlyOnce ==
    /\ [](\A c \in ConnIds : conn[c].closedCalls <= 1)
    /\ \A c \in ConnIds : (conn[c].shutdownError # "nil") ~> (conn[c].closedCalls = 1)

\* a connection that sent, was shut by the listener, and got its one closed
C1_Witness ==
    \E c \in ConnIds :
        /\ conn[c].closedCalls = 1
        /\ conn[c].closedCause = "ErrListenerClose"
        /\ conn[c].sentCalls = 1
        /\ lsn.cancel = "done"

\* a Send that neither sent nor closed has answered yet
SendOpen(c) == conn[c].sends > conn[c].sentCalls /\ conn[c].closedCalls = 0

\* C2: a Send gets at most one sent, no sent fires once closed has fired, and
\* every Send is eventually answered by its sent or by closed
C2_SentOrClosed ==
    /\ [](\A c \in ConnIds :
            /\ conn[c].sentCalls <= conn[c].sends
            /\ conn[c].sends - conn[c].sentCalls <= 1)
    /\ [][\A c \in ConnIds :
            conn'[c].sentCalls # conn[c].sentCalls =>
                /\ conn[c].closedCalls = 0 /\ conn'[c].closedCalls = 0
                /\ conn[c].sends > conn[c].sentCalls
                /\ conn'[c].sentCalls = conn[c].sentCalls + 1]_vars
    /\ \A c \in ConnIds : SendOpen(c) ~> ~SendOpen(c)

\* a Send whose send failed was answered by closed, not by sent
C2_Witness ==
    \E c \in ConnIds :
        /\ conn[c].sends = 1 /\ conn[c].sentCalls = 0
        /\ conn[c].closedCalls = 1 /\ conn[c].closedCause = "ECONNRESET"

\* C3: the first shutdown latches its cause and posts one kernel shutdown;
\* afterwards the cause and the number of shutdowns posted never change, and
\* closed is passed the latched cause
C3_ShutdownIdempotent ==
    /\ [](\A c \in ConnIds :
            /\ conn[c].shutdownPosted = (IF conn[c].shutdownError = "nil" THEN 0 ELSE 1)
            /\ conn[c].closedCalls > 0 => conn[c].closedCause = conn[c].shutdownError)
    /\ [][\A c \in ConnIds :
            conn[c].shutdownError # "nil" =>
                /\ conn'[c].shutdownError = conn[c].shutdownError
                /\ conn'[c].shutdownPosted = conn[c].shutdownPosted]_vars

\* a later shutdown with another cause ran on a latched connection
C3_Witness ==
    /\ hlog.c \in ConnIds
    /\ hlog.ev = <<<<"shutdown", "ErrUpstreamClose">>>>
    /\ conn[hlog.c].shutdownError = "io.EOF"
    /\ conn[hlog.c].shutdownPosted = 1

\* position of the first step ev in a log, 0 if there is none
Pos(log, ev) ==
    IF Count(log, ev) = 0 THEN 0
    ELSE CHOOSE i \in 1..Len(log) : log[i] = ev /\ \A j \in 1..(i - 1) : log[j] # ev

\* C4 as stated: the buffer handed to received is released exactly once, before
\* any operation is prepared on the fd, those the upstream prepares inside
\* received included
C4_ReleaseBeforeAnyPrepare ==
    /\ ring = RecvBuffersCount
    /\ Count(hlog.ev, <<"received">>) > 0 =>
        /\ Count(hlog.ev, <<"get">>) = 1 /\ Count(hlog.ev, <<"release">>) = 1
        /\ \A i \in 1..Len(hlog.ev) :
              hlog.ev[i][1] = "prepare" => Pos(hlog.ev, <<"release">>) < i

\* C4: the buffer handed to received is taken once and released exactly once,
\* after received returns and before the receive loop prepares its next recv;
\* what the upstream prepares inside received is prepared before the release
C4_ReleaseAfterReceived ==
    /\ ring = RecvBuffersCount
    /\ Count(hlog.ev, <<"received">>) > 0 =>
        /\ Count(hlog.ev, <<"get">>) = 1 /\ Count(hlog.ev, <<"release">>) = 1
        /\ Pos(hlog.ev, <<"get">>) < Pos(hlog.ev, <<"received">>)
        /\ Pos(hlog.ev, <<"received">>) < Pos(hlog.ev, <<"release">>)
        /\ \A i \in 1..Len(hlog.ev) :
              hlog.ev[i] = <<"prepare", "recv">> => Pos(hlog.ev, <<"release">>) < i
        /\ \A i \in 1..Len(hlog.ev) :
              hlog.ev[i] \in {<<"prepare", "send">>, <<"prepare", "shutdown">>} =>
                  (Pos(hlog.ev, <<"received">>) < i /\ i < Pos(hlog.ev, <<"release">>))

\* an echo: received prepared a send, then the buffer was released, then the recv
\* was prepared again
C4_Witness ==
    hlog.ev = <<<<"get">>, <<"received">>, <<"prepare", "send">>, <<"release">>,
                <<"prepare", "recv">>>>

Latches(c) == conn[c].shutdownError = "nil" /\ conn'[c].shutdownError # "nil"

C15_ClosedOnlyAfterClose ==
    [][\A c \in ConnIds :
        (conn'[c].closedCalls > conn[c].closedCalls \/ (c \in lsn.conns /\ c \notin lsn'.conns))
            => conn[c].phase = "close"]_vars
\* C16: a send completion without errno that leaves bytes unwritten prepares
\* exactly one send, for the bytes that remain, and calls no sent; the
\* completion that writes the last byte calls sent once and prepares nothing;
\* 65536 bytes completed as 20000, 30000, 15536 call sent once, at the third
C16_PartialSendResumes ==
    /\ [](LET After20000 == onSend([newTcpConn EXCEPT !.send = 65536, !.sends = 1], 20000, FALSE)
              After30000 == onSend([After20000 EXCEPT !.log = <<>>], 30000, FALSE)
              After15536 == onSend([After30000 EXCEPT !.log = <<>>], 15536, FALSE)
          IN
          /\ After20000.send = 45536 /\ After20000.log = <<<<"prepare", "send">>>>
          /\ After30000.send = 15536 /\ After30000.log = <<<<"prepare", "send">>>>
          /\ After30000.sentCalls = 0
          /\ After15536.send = 0 /\ After15536.log = <<<<"sent">>>>
          /\ After15536.sentCalls = 1)
    /\ [][\A c \in ConnIds :
            conn'[c].send < conn[c].send =>
                /\ hlog'.c = c
                /\ \/ /\ hlog'.ev[1] = <<"shutdown", "ECONNRESET">>
                      /\ conn'[c].send = 0 /\ conn'[c].sentCalls = conn[c].sentCalls
                   \/ /\ hlog'.ev = <<<<"sent">>>>
                      /\ conn'[c].send = 0 /\ conn'[c].sentCalls = conn[c].sentCalls + 1
                   \/ /\ hlog'.ev = <<<<"prepare", "send">>>>
                      /\ conn'[c].send > 0 /\ conn'[c].sentCalls = conn[c].sentCalls]_vars

\* a completion wrote a part of the data: the rest was sent again, no sent yet
C16_Witness ==
    /\ hlog.c \in ConnIds
    /\ hlog.ev = <<<<"prepare", "send">>>>
    /\ conn[hlog.c].send > 0 /\ conn[hlog.c].send < MaxSendLen
    /\ conn[hlog.c].sends = 1 /\ conn[hlog.c].sentCalls = 0
\* C18 as stated: a recv completion with a temporary errno prepares the recv
\* again and latches no shutdown; one with res = 0 or with ECONNRESET latches
\* the shutdown with io.EOF; one with any other errno latches that errno
C18_ResetIsEndOfStream ==
    [][\A c \in ConnIds :
        (hlog'.c = c /\ Len(hlog'.ev) > 0 /\ hlog'.ev[1][1] = "cqe"
            /\ conn[c].shutdownError = "nil") =>
            LET errno == hlog'.ev[1][2]
            IN  IF TemporaryErrno(errno)
                THEN /\ hlog'.ev = <<<<"cqe", errno>>, <<"prepare", "recv">>>>
                     /\ conn'[c].shutdownError = "nil"
                ELSE IF errno \in {"nil", "ECONNRESET"}
                THEN conn'[c].shutdownError = "io.EOF"
                ELSE conn'[c].shutdownError = errno]_vars
\* C19: a recv completion with data and without the MORE flag prepares the
\* multishot recv again, after the buffer is released, so a bound connection
\* with no shutdown latched always has exactly one recv armed and the handler of
\* every chunk leaves one armed
C19_RearmsWithoutMore ==
    /\ \A c \in ConnIds :
          (conn[c].up # "nil" /\ conn[c].shutdownError = "nil") => conn[c].recv = 1
    /\ Count(hlog.ev, <<"received">>) > 0 =>
          /\ conn[hlog.c].recv = 1
          /\ Count(hlog.ev, <<"prepare", "recv">>) <= 1
          /\ hlog.ev[Len(hlog.ev)] \in {<<"release">>, <<"prepare", "recv">>}
          /\ hlog.ev[Len(hlog.ev)] = <<"prepare", "recv">> =>
                hlog.ev[Len(hlog.ev) - 1] = <<"release">>

\* a chunk came without the MORE flag: the buffer was released and the recv
\* prepared again, and the connection goes on receiving
C19_Witness ==
    /\ hlog.c \in ConnIds
    /\ hlog.ev = <<<<"get">>, <<"received">>, <<"release">>, <<"prepare", "recv">>>>
    /\ conn[hlog.c].recv = 1
    /\ conn[hlog.c].shutdownError = "nil"
\* the last Len(all) - n bytes of all
Rest(all, n) == SubSeq(all, n + 1, Len(all))

\* C17: consume(v, n), 0 <= n <= total, leaves the last total - n bytes in
\* order, as the slices of v without the ones consumed whole and with the first
\* one left trimmed; SendBuffers has called sent, once, exactly when the bytes
\* written add up to the total, and until then a writev of exactly the
\* unwritten bytes is in flight
C17_ConsumeLeavesRemainder ==
    wv # <<>> =>
        LET all == Flatten(wv.buffers)
            k == Len(wv.buffers)
        IN  /\ \A n \in 0..Len(all) :
                  LET r == consume(wv.buffers, n)
                      d == k - Len(r)
                  IN  /\ Flatten(r) = Rest(all, n)
                      /\ Len(r) <= k
                      /\ \A i \in 2..Len(r) : r[i] = wv.buffers[d + i]
                      /\ Len(r) > 0 =>
                            /\ Len(r[1]) > 0
                            /\ r[1] = Rest(wv.buffers[d + 1],
                                           Len(wv.buffers[d + 1]) - Len(r[1]))
            /\ wv.ev # "shutdown" =>
                  /\ wv.written <= Len(all)
                  /\ wv.sentCalls = (IF wv.written = Len(all) /\ ~wv.writev THEN 1 ELSE 0)
                  /\ wv.writev <=> (wv.written < Len(all) \/ wv.sentCalls = 0)
                  /\ (wv.written < Len(all)) =>
                        (wv.writev /\ Flatten(wv.v) = Rest(all, wv.written))
            /\ wv.sentCalls <= 1

\* a writev wrote the first slice and a part of the second: the first was
\* dropped, the second trimmed, and a writev of the rest was prepared
C17_Witness ==
    /\ wv # <<>>
    /\ wv.ev = "writev" /\ wv.writev /\ wv.sentCalls = 0
    /\ Len(wv.buffers) = 3 /\ Len(wv.v) = 2
    /\ Len(wv.buffers[1]) > 0
    /\ Len(wv.v[1]) > 0 /\ Len(wv.v[1]) < Len(wv.buffers[2])
\* C11 as stated: once the context is cancelled Run eventually returns, without
\* the unclean shutdown panic, and when it has returned the listener is
\* cancelled and out of the loop, every accepted and dialed connection was shut
\* down, closed and taken out of its parent's map, and no callback is left
C11_RunReturnsClean ==
    /\ [](loop.run # "panic")
    /\ (loop.ctx = "done") ~> (loop.run = "returned")
    /\ [](loop.run = "returned" =>
            /\ lsn.cancel = "done" /\ loop.listeners = {}
            /\ lsn.conns = {} /\ loop.connections = {}
            /\ NoCallbacks
            /\ \A c \in ConnIds :
                  conn[c].st # "free" =>
                      (conn[c].shutdownPosted = 1 /\ conn[c].closedCalls = 1))
\* C14: a connection that was never bound has no recv armed; the first Bind
\* prepares exactly one recv; a later Bind changes the upstream and nothing
\* else, and prepares nothing; no connection ever has two recvs armed
C14_BindStartsRecvOnce ==
    /\ [](\A c \in ConnIds : conn[c].up = "nil" => conn[c].recv = 0)
    /\ [](\A c \in ConnIds : conn[c].recv <= 1)
    /\ [][\A c \in ConnIds :
            conn'[c].up # conn[c].up =>
                /\ hlog'.c = c
                /\ IF conn[c].up = "nil"
                   THEN /\ conn'[c].recv = 1
                        /\ Count(hlog'.ev, <<"prepare", "recv">>) = 1
                        /\ hlog'.ev[Len(hlog'.ev)] = <<"prepare", "recv">>
                   ELSE /\ conn'[c] = [conn[c] EXCEPT !.up = conn'[c].up]
                        /\ hlog'.ev = <<>>]_vars

\* a bound connection was bound again, to the upgraded upstream: one recv is
\* armed and this Bind prepared nothing
C14_Witness ==
    /\ hlog.c \in ConnIds
    /\ hlog.ev = <<>>
    /\ conn[hlog.c].up = "upgraded"
    /\ conn[hlog.c].recv = 1
    /\ conn[hlog.c].shutdownError = "nil"

\* C20: an accept completion without error makes one connection, passes it to
\* the accepted callback and puts it in the listener's connections; one with a
\* Temporary error prepares the multishot accept again, so the listener goes on
\* accepting; one with ECANCELED adds no connection and prepares nothing
C20_AcceptCompletion ==
    [][/\ \A c \in ConnIds :
            (c \in lsn'.conns /\ c \notin lsn.conns) =>
                /\ lsn.accept = "armed" /\ lsn'.accept = "armed"
                /\ lsn'.conns = lsn.conns \cup {c}
                /\ conn[c].st = "free" /\ conn'[c].st = "live"
                /\ hlog'.c = c /\ hlog'.ev[1] = <<"accepted">>
                /\ \A d \in ConnIds \ {c} : conn'[d] = conn[d]
       /\ (hlog'.c = 0 /\ Len(hlog'.ev) > 0 /\ hlog'.ev[1][1] = "cqe") =>
            /\ lsn'.conns = lsn.conns /\ conn' = conn
            /\ IF TemporaryErrno(hlog'.ev[1][2])
               THEN /\ hlog'.ev = <<hlog'.ev[1], <<"prepare", "accept">>>>
                    /\ lsn'.accept = "armed"
               ELSE /\ hlog'.ev = <<hlog'.ev[1]>>
                    /\ lsn'.accept = "none"]_vars

\* the accept ended with a temporary error and was prepared again: the
\* listener is accepting
C20_Witness ==
    /\ hlog.c = 0
    /\ hlog.ev = <<<<"cqe", "EAGAIN">>, <<"prepare", "accept">>>>
    /\ lsn.accept = "armed"
\* C21: closing the listener only posts the cancel; until the cancel completes
\* no connection of the listener is shut down or removed and the listener stays
\* in loop.listeners; the completion, with or without an error, takes the
\* listener out of loop.listeners, and shuts down with ErrListenerClose every
\* connection then in the listener's map if and only if it was told to
C21_ListenerCloseOnCompletion ==
    [][/\ (lsn.cancel = "none" /\ lsn'.cancel = "posted") =>
            /\ loop'.listeners = loop.listeners /\ lsn'.conns = lsn.conns
            /\ \A c \in lsn.conns : conn'[c] = conn[c]
       /\ (loop'.listeners # loop.listeners) =>
            (lsn.cancel = "posted" /\ lsn'.cancel = "done")
       /\ \A c \in ConnIds :
            (conn'[c].shutdownError = "ErrListenerClose" /\ conn[c].shutdownError = "nil") =>
                (lsn.cancel = "posted" /\ lsn'.cancel = "done")
       /\ (lsn.cancel = "posted" /\ lsn'.cancel = "done") =>
            /\ loop'.listeners = {} /\ lsn'.conns = lsn.conns
            /\ hlog'.ev \in {<<<<"cancel", "nil">>>>, <<<<"cancel", "ENOENT">>>>}
            /\ \A c \in ConnIds :
                  IF lsn.shutdownConnections /\ c \in lsn.conns /\ conn[c].shutdownError = "nil"
                  THEN /\ conn'[c].shutdownError = "ErrListenerClose"
                       /\ conn'[c].phase = "shutdown"
                       /\ conn'[c].shutdownPosted = conn[c].shutdownPosted + 1
                  ELSE conn'[c] = conn[c]]_vars

\* close(false) has completed with an error: the listener is out of the loop
\* and its connection, bound and receiving, was not shut down
C21_Witness ==
    /\ lsn.cancel = "done" /\ ~lsn.shutdownConnections
    /\ hlog.ev = <<<<"cancel", "ENOENT">>>>
    /\ loop.listeners = {}
    /\ \E c \in lsn.conns : conn[c].shutdownError = "nil" /\ conn[c].recv = 1
\* C22: a completion without user data is skipped; for every other one the
\* registered callback is invoked once, and stays registered exactly if the
\* completion has the MORE flag; so no single-shot callback is invoked twice,
\* no completion finds its callback gone, and the registry holds exactly the
\* operations that are prepared or with the kernel, or whose last completion
\* waits in the queue
C22_DispatchKeepsRegistry ==
    /\ [](rg # <<>> =>
            /\ ~rg.nilCall
            /\ rg.m = {rg.sqes[i] : i \in 1..Len(rg.sqes)} \cup rg.inflight
                        \cup {rg.cq[j].ud : j \in {n \in 1..Len(rg.cq) :
                                                     rg.cq[n].ud # 0 /\ ~rg.cq[n].more}}
            /\ \A i \in 1..Len(rg.calls) : ~rg.ran[i].multi => rg.calls[i] <= 1)
    /\ [][(rg # <<>> /\ Len(rg.cq) > 0 /\ Len(rg'.cq) = 0) =>
            /\ \A i \in 1..Len(rg.calls) :
                  rg'.calls[i] = rg.calls[i]
                      + Cardinality({j \in 1..Len(rg.cq) : rg.cq[j].ud = reserved + i})
            /\ \A j \in 1..Len(rg.cq) :
                  rg.cq[j].ud # 0 =>
                      (rg.cq[j].ud \in rg'.m <=>
                          \A n \in 1..Len(rg.cq) :
                              rg.cq[n].ud = rg.cq[j].ud => rg.cq[n].more)]_vars

\* a multishot callback was invoked twice and removed by the completion
\* without MORE, and a completion without user data was skipped
C22_Witness ==
    /\ rg # <<>>
    /\ Len(rg.cq) = 0 /\ rg.posted = 3
    /\ \E i \in 1..Len(rg.calls) :
          rg.ran[i].multi /\ rg.calls[i] = 2 /\ (reserved + i) \notin rg.m

\* C23: preparePending runs the pending preparers in the order they were
\* enqueued and stops at the first that gets no entry; the ones it ran leave
\* pending and the rest stay, in their order; no preparer ever runs twice
C23_DrainInOrder ==
    /\ [](rg # <<>> =>
            /\ \A i, j \in 1..(Len(rg.ran) + Len(rg.pending)) :
                  (rg.ran \o rg.pending)[i].id = (rg.ran \o rg.pending)[j].id => i = j
            /\ \A r \in {rg, ringSubmit(rg)} :
                  LET r1 == preparePending(r, 0)
                      k == r1.prepared
                  IN  /\ k \in 0..Len(r.pending)
                      /\ k = Len(r.pending) \/ ~GetSQE(r1)
                      /\ k < Len(r.pending) => Len(r.sqes) + k = RingEntries
                      /\ r1.ran = r.ran \o SubSeq(r.pending, 1, k)
                      /\ r1.pending = SubSeq(r.pending, k + 1, Len(r.pending)))
    /\ [][rg # <<>> =>
            LET total == Len(rg.ran) + Len(rg.pending)
                appended == /\ Len(rg'.ran) + Len(rg'.pending) > total
                            /\ Len(rg'.pending) > 0
                            /\ rg'.pending[Len(rg'.pending)].id = total + 1
                keep == Len(rg'.pending) - (IF appended THEN 1 ELSE 0)
                k == Len(rg.pending) - keep
            IN  /\ k >= 0
                /\ SubSeq(rg'.pending, 1, keep) = SubSeq(rg.pending, k + 1, Len(rg.pending))
                /\ SubSeq(rg'.ran, 1, Len(rg.ran) + k) = rg.ran \o SubSeq(rg.pending, 1, k)
                /\ k > 0 => rg'.prepared = k]_vars

\* two operations were pending, preparePending prepared the first and left
\* the second
C23_Witness ==
    /\ rg # <<>>
    /\ rg.prepared = 1
    /\ Len(rg.pending) = 1
    /\ rg.ran[Len(rg.ran)].id + 1 = rg.pending[1].id
\* C24 as stated: runUntilDone is left only when no callback is registered,
\* with the panic exactly when a listener or a connection is still in the
\* loop's maps
C24_ReturnsOnlyWhenEmpty ==
    [][(loop.run = "runUntilDone" /\ loop'.run # "runUntilDone") =>
          /\ NoCallbacks
          /\ loop'.run = IF loop.connections # {} \/ loop.listeners # {}
                          THEN "panic" ELSE "returned"]_vars

\* C24, amended: runUntilDone returns nil or panics only when no callback is
\* registered, and panics exactly when a listener or a connection is still in
\* the loop's maps then; while a callback is registered it is left only by
\* the error of a failed runOnce; after the return or the panic no callback
\* is registered
C24_RunUntilDone ==
    /\ [][(loop.run = "runUntilDone" /\ loop'.run # "runUntilDone") =>
            IF NoCallbacks
            THEN loop'.run = IF loop.connections # {} \/ loop.listeners # {}
                             THEN "panic" ELSE "returned"
            ELSE loop'.run = "error"]_vars
    /\ [](loop.run \in {"returned", "panic"} => NoCallbacks)
    /\ [](loop.run = "panic" => loop.connections # {} \/ loop.listeners # {})
    /\ [](loop.run = "returned" => loop.connections = {} /\ loop.listeners = {})

\* runUntilDone found no callback and a connection in the loop's map, and
\* panicked
C24_Witness ==
    /\ loop.run = "panic"
    /\ loop.connections # {}
    /\ NoCallbacks
\* C25: for a whole frame newFrame reports ErrReservedRsv if RSV2 or RSV3 is
\* set; else ErrReservedOpcode for a reserved opcode; else, for a control
\* frame, ErrTooBigPayloadForControlFrame for a payload over 125 bytes, else
\* ErrFragmentedControlFrame without FIN, else the result of the Close checks
\* for a Close frame; every other frame passes.  With an error no frame is
\* returned, the reader does not mark the frame done, and readFrames hands
\* the error on without a message or a send
C25_VerifyOrder ==
    (cStage = "parsed" /\ cIn.len8 = <<>>
        /\ cIn.cut >= Len(rawFrame(cF, cIn.masked, <<>>))) =>
        LET n == Len(cF.payload)
            rsv == HasBit(cF.flags, rsv2Mask) \/ HasBit(cF.flags, rsv3Mask)
            r == readFrames(NewAsyncConn, NewBufferReader(cEnc))
        IN  /\ rsv => cDec.err = "ErrReservedRsv"
            /\ (~rsv /\ cF.opcode \notin {Continuation, Text, Binary, Close, Ping, Pong})
                  => cDec.err = "ErrReservedOpcode"
            /\ (~rsv /\ cF.opcode \in {Continuation, Text, Binary}) => cDec.err = "nil"
            /\ (~rsv /\ cF.opcode \in {Close, Ping, Pong} /\ n > 125)
                  => cDec.err = "ErrTooBigPayloadForControlFrame"
            /\ (~rsv /\ cF.opcode \in {Close, Ping, Pong} /\ n <= 125 /\ ~cF.fin)
                  => cDec.err = "ErrFragmentedControlFrame"
            /\ (~rsv /\ cF.opcode \in {Ping, Pong} /\ n <= 125 /\ cF.fin) => cDec.err = "nil"
            /\ (~rsv /\ cF.opcode = Close /\ n <= 125 /\ cF.fin)
                  => cDec.err = verifyClose(cF)
            /\ cDec.err # "nil" =>
                  /\ cDec.kind = "err" /\ cDec.frame = NoFrame /\ cDec.rd.tail = 0
                  /\ r.err = cDec.err /\ r.c.recvd = <<>> /\ r.c.sent = <<>>
            /\ cDec.err = "nil" =>
                  /\ cDec.kind = "frame"
                  /\ cDec.frame = cF
                  /\ cDec.rd.tail = Len(rawFrame(cF, cIn.masked, <<>>))

\* a Close frame without FIN and with 126 bytes of payload fails two checks:
\* the payload length decides
C25_Witness ==
    /\ cStage = "parsed"
    /\ cF.opcode = Close /\ cF.flags = 0 /\ Len(cF.payload) = 126
    /\ cIn.cut = Len(cEnc) /\ Len(cEnc) = 130
    /\ cDec.err = "ErrTooBigPayloadForControlFrame"
\* C26 as stated: a Close frame (final, without RSV2 and RSV3, of at most 125
\* bytes) is accepted exactly if its close code is in 1000..1003, 1007..1011
\* or 3000..4999, and every other one gives ErrInvalidCloseCode
C26_AcceptedIffCode ==
    (cStage = "parsed" /\ cIn.len8 = <<>>
        /\ cIn.cut >= Len(rawFrame(cF, cIn.masked, <<>>))
        /\ cF.opcode = Close /\ cF.flags \in {finMask, finMask + rsv1Mask}
        /\ Len(cF.payload) <= 125) =>
        LET p == cF.payload
            cc == IF Len(p) = 0 THEN 1000 ELSE IF Len(p) = 1 THEN 0 ELSE (256 * p[1]) + p[2]
            ok == cc \in (1000..1003) \cup (1007..1011) \cup (3000..4999)
        IN  /\ cDec.kind = "frame" <=> ok
            /\ ~ok => cDec.err = "ErrInvalidCloseCode"

\* C26, amended: a Close frame that passed the checks before the Close checks
\* is accepted exactly if the bytes after its first two are valid UTF-8 and
\* its close code is in 1000..1003, 1007..1011 or 3000..4999; the code of an
\* empty payload is 1000, a payload of one byte has no valid code, and else
\* the code is the big-endian value of the first two bytes.  A reason that
\* is not UTF-8 gives ErrInvalidUtf8Payload whatever the code, and only then
\* does a code outside the ranges give ErrInvalidCloseCode
C26_CloseAccepted ==
    (cStage = "parsed" /\ cIn.len8 = <<>>
        /\ cIn.cut >= Len(rawFrame(cF, cIn.masked, <<>>))
        /\ cF.opcode = Close /\ cF.flags \in {finMask, finMask + rsv1Mask}
        /\ Len(cF.payload) <= 125) =>
        LET p == cF.payload
            cc == IF Len(p) = 0 THEN 1000 ELSE IF Len(p) = 1 THEN 0 ELSE (256 * p[1]) + p[2]
            ok == cc \in (1000..1003) \cup (1007..1011) \cup (3000..4999)
            reason == IF Len(p) > 2 THEN SubSeq(p, 3, Len(p)) ELSE <<>>
        IN  /\ cDec.kind = "frame" <=> (utf8Valid(reason) /\ ok)
            /\ ~utf8Valid(reason) => cDec.err = "ErrInvalidUtf8Payload"
            /\ (utf8Valid(reason) /\ ~ok) => cDec.err = "ErrInvalidCloseCode"
            /\ cDec.kind = "frame" => cDec.frame.payload = p

\* a Close frame with the code 1000 and a reason that is not UTF-8 was
\* rejected
C26_Witness ==
    /\ cStage = "parsed"
    /\ cF.opcode = Close /\ cF.flags = finMask
    /\ cF.payload = <<3, 232, 255>>
    /\ cIn.cut = Len(cEnc) /\ Len(cEnc) = 5
    /\ cDec.err = "ErrInvalidUtf8Payload"
\* C27 as stated: on a buffer that ends inside a frame newFrame returns
\* ErrReadMore with exactly the bytes the failed read lacks, at least one:
\* the read steps end after the first byte, the second byte, the extended
\* length, the masking key and the payload; it returns io.EOF exactly on a
\* buffer that ends where a frame ends
C27_NeedMoreExact ==
    /\ cStage = "parsed" =>
          LET k == cIn.cut
              e3 == 2 + Len(extLen(cF, cIn.len8))
              e4 == e3 + (IF cIn.masked THEN 4 ELSE 0)
              ends == <<1, 2, e3, e4>>
                          \o (IF cIn.len8 = <<>> THEN <<e4 + Len(cF.payload)>> ELSE <<>>)
              inside == k > 0 /\ (cIn.len8 = <<>> => k < e4 + Len(cF.payload))
              failed == {i \in 1..Len(ends) : ends[i] > k /\ \A j \in 1..(i - 1) : ends[j] <= k}
          IN  /\ cDec.kind = "eof" <=> k = 0
              /\ inside => (cDec.kind = "more" /\ cDec.more >= 1)
              /\ inside => \A i \in failed : cDec.more = ends[i] - k
    /\ cStage = "parsedNext" =>
          LET k2 == cIn.cut - Len(rawFrame(cF, cIn.masked, <<>>))
          IN  /\ cDec.kind = "eof" <=> k2 = 0
              /\ k2 = 1 => (cDec.kind = "more" /\ cDec.more = 1)
\* C28: recvMore is never negative; a Received call with a chunk shorter than
\* recvMore only appends the chunk to pending and takes its length off
\* recvMore: no message, no send, no Close, no change of the message state;
\* a call in which a frame was parsed leaves pending empty and recvMore 0, or,
\* if a later frame of the call was cut short, leaves only the bytes of that
\* frame in pending and in recvMore what its parse lacks
C28_ShortChunkWaits ==
    /\ [](ac.recvMore >= 0)
    /\ [][(todo # <<>> /\ todo' = Tail(todo)) =>
            LET buf == Head(todo)
                b == IF Len(ac.pending) > 0 THEN ac.pending \o buf ELSE buf
                parsed == newFrame(NewBufferReader(b))
                rest == newFrame(NewBufferReader(ac'.pending))
            IN  IF Len(buf) < ac.recvMore
                THEN /\ ac'.pending = ac.pending \o buf
                     /\ ac'.recvMore = ac.recvMore - Len(buf)
                     /\ ac'.recvMore > 0
                     /\ ac'.recvd = ac.recvd /\ ac'.sent = ac.sent
                     /\ ac'.closeCalls = ac.closeCalls /\ ac'.ms = ac.ms
                ELSE parsed.kind = "frame" =>
                        \/ ac'.pending = <<>> /\ ac'.recvMore = 0
                        \/ /\ Len(ac'.pending) <= Len(b) - parsed.rd.tail
                            /\ ac'.pending
                                  = SubSeq(b, Len(b) - Len(ac'.pending) + 1, Len(b))
                            /\ rest.kind = "more" /\ rest.more = ac'.recvMore]_vars

\* maskedHelloFrame byte by byte: the third byte is shorter than the four
\* bytes of the masking key the parse waits for
C28_Witness ==
    /\ mode = "bytes" /\ whole = maskedHelloFrame
    /\ Len(todo) = 8
    /\ ac.recvMore = 3
    /\ ac.pending[Len(ac.pending)] = 55
    /\ ac.recvd = <<>> /\ ac.closeCalls = 0
\* C29: a Received call calls Close on the TCP connection once if readFrames
\* returns an error and not at all otherwise.  A call whose first frame fails
\* in newFrame, in verifyFrame or in verifyMessage closes and emits no message
\* and sends nothing; a call whose buffer is short of a first frame, or is
\* held back, or ends with ErrReadMore or io.EOF, does not close
C29_ParseErrorCloses ==
    [][(todo # <<>> /\ todo' = Tail(todo)) =>
          LET buf == Head(todo)
              b == IF Len(ac.pending) > 0 THEN ac.pending \o buf ELSE buf
              parsed == newFrame(NewBufferReader(b))
              f == parsed.frame
              data == parsed.kind = "frame" /\ f.opcode \in {Continuation, Text, Binary}
              inOrder == IF ac.ms.prevFrameFragment \in {fragSingle, fragLast}
                         THEN f.opcode # Continuation ELSE f.opcode = Continuation
              opcode == IF f.opcode = Continuation THEN ac.ms.opcode ELSE f.opcode
              fails == \/ parsed.kind = "err"
                       \/ data /\ (~inOrder \/ HasBit(f.flags, rsv1Mask))
                       \/ data /\ f.fin /\ opcode = Text
                              /\ ~utf8Valid(ac.ms.payload \o f.payload)
          IN  /\ ac'.closeCalls = ac.closeCalls + (IF ac'.err = "nil" THEN 0 ELSE 1)
              /\ Len(buf) < ac.recvMore => ac'.err = "nil"
              /\ (Len(buf) >= ac.recvMore /\ parsed.kind \in {"eof", "more"}) =>
                    (ac'.err = "nil" /\ ac'.recvd = ac.recvd /\ ac'.sent = ac.sent)
              /\ (Len(buf) >= ac.recvMore /\ fails) =>
                    /\ ac'.err \in {"ErrReservedRsv", "ErrReservedOpcode",
                                     "ErrTooBigPayloadForControlFrame",
                                     "ErrFragmentedControlFrame", "ErrInvalidCloseCode",
                                     "ErrInvalidUtf8Payload", "ErrInvalidFragmentation",
                                     "ErrDeflateNotSupported"}
                    /\ parsed.kind = "err" => ac'.err = parsed.err
                    /\ ac'.closeCalls = ac.closeCalls + 1
                    /\ ac'.recvd = ac.recvd /\ ac'.sent = ac.sent
              /\ (Len(buf) >= ac.recvMore /\ parsed.kind = "frame" /\ ~fails
                    /\ Len(b) = parsed.rd.tail) => ac'.err = "nil"]_vars

\* the final Text frame with RSV1, delivered whole or in two chunks, closed
\* the connection once and no message was emitted
C29_Witness ==
    /\ whole = <<193, 0>> /\ todo = <<>>
    /\ ac.err = "ErrDeflateNotSupported"
    /\ ac.closeCalls = 1
    /\ ac.recvd = <<>> /\ ac.sent = <<>>
RECURSIVE Echoes(_)

\* the answer a control frame asks for, then the answers of the frames after it
EchoesOn(res) ==
    IF res.kind # "frame" THEN <<>>
    ELSE (IF res.frame.opcode = Ping THEN <<(<<128 + Pong, Len(res.frame.payload)>>
                                              \o res.frame.payload)>>
          ELSE IF res.frame.opcode = Close THEN <<(<<128 + Close, Len(res.frame.payload)>>
                                                    \o res.frame.payload)>>
          ELSE <<>>)
         \o Echoes(res.rd)

\* the frames the whole frames of a buffer ask for, in order: a final
\* unmasked Pong with the payload of each Ping, a final unmasked Close with
\* the payload of each Close, nothing for a Pong or a data frame
Echoes(rd) == EchoesOn(newFrame(rd))

RECURSIVE FinalDataFrames(_)

FinalDataFramesOn(res) ==
    IF res.kind # "frame" THEN 0
    ELSE (IF res.frame.fin /\ res.frame.opcode \in {Continuation, Text, Binary} THEN 1 ELSE 0)
         + FinalDataFrames(res.rd)

\* the final data frames among the whole frames of a buffer
FinalDataFrames(rd) == FinalDataFramesOn(newFrame(rd))

\* C30: a Received call hands the TCP connection, in order, one Pong with the
\* payload of each Ping and one Close with the payload of each Close among
\* the frames it parsed, and nothing else: all of them if the call ends
\* without error, those before the error otherwise; it emits no more
\* messages than the buffer has final data frames, and none if the buffer
\* is one control frame, whose answer the call then sends without touching
\* the message state or closing the connection
C30_ControlAnswers ==
    [][(todo # <<>> /\ todo' = Tail(todo) /\ Len(Head(todo)) >= ac.recvMore) =>
          LET b == IF Len(ac.pending) > 0 THEN ac.pending \o Head(todo) ELSE Head(todo)
              parsed == newFrame(NewBufferReader(b))
              echoes == Echoes(NewBufferReader(b))
              new == Len(ac'.sent) - Len(ac.sent)
          IN  /\ new \in 0..Len(echoes)
              /\ ac'.sent = ac.sent \o SubSeq(echoes, 1, new)
              /\ ac'.err = "nil" => new = Len(echoes)
              /\ Len(ac'.recvd) - Len(ac.recvd) <= FinalDataFrames(NewBufferReader(b))
              /\ (parsed.kind = "frame" /\ parsed.rd.tail = Len(b)
                    /\ parsed.frame.opcode \in {Close, Ping, Pong}) =>
                    /\ new = (IF parsed.frame.opcode = Pong THEN 0 ELSE 1)
                    /\ ac'.recvd = ac.recvd /\ ac'.ms = ac.ms
                    /\ ac'.closeCalls = ac.closeCalls /\ ac'.err = "nil"]_vars

\* "Hello" was emitted and the close frame 88 02 03 e9 after it was echoed
C30_Witness ==
    /\ whole = helloFrame \o closeFrame /\ todo = <<>>
    /\ ac.recvd = <<Hello>>
    /\ ac.sent = <<closeFrame>>
    /\ ac.closeCalls = 0
\* no byte of the peer arrives after a read deadline
NoLate == \A i \in 1..Len(peer.stream) : ~peer.stream[i].late

HasClose(frames) == \E i \in 1..Len(frames) : frames[i].opcode = Close

FirstClose(frames) ==
    CHOOSE i \in 1..Len(frames) :
        frames[i].opcode = Close /\ \A j \in 1..(i - 1) : frames[j].opcode # Close

\* the frames up to the first Close frame, and the frames after it
UpToClose(frames) ==
    IF HasClose(frames) THEN SubSeq(frames, 1, FirstClose(frames)) ELSE frames
AfterClose(frames) ==
    IF HasClose(frames) THEN SubSeq(frames, FirstClose(frames) + 1, Len(frames)) ELSE <<>>

\* one Pong per Ping with the payload of the Ping, one Close per Close with the
\* payload of the Close, nothing for a Pong or a data frame
RECURSIVE ControlReplies(_)
ControlReplies(frames) ==
    IF frames = <<>> THEN <<>>
    ELSE LET f == Head(frames)
             reply == IF f.opcode = Ping THEN <<Wire(encodeFrame(Pong, f.payload))>>
                      ELSE IF f.opcode = Close THEN <<Wire(encodeFrame(Close, f.payload))>>
                      ELSE <<>>
         IN  reply \o ControlReplies(Tail(frames))

\* the messages of the data frames: per group the opcode of its first frame and
\* the payloads in order; a group left open gives none
RECURSIVE MessagesOf(_, _, _)
MessagesOf(frames, opcode, payload) ==
    IF frames = <<>> THEN <<>>
    ELSE LET f == Head(frames)
             o == IF f.opcode = Continuation THEN opcode ELSE f.opcode
         IN  IF isControl(f) THEN MessagesOf(Tail(frames), opcode, payload)
             ELSE IF f.fin
             THEN <<[opcode |-> o, payload |-> payload \o f.payload]>>
                      \o MessagesOf(Tail(frames), None, <<>>)
             ELSE MessagesOf(Tail(frames), o, payload \o f.payload)

\* the Read calls went on until one returned io.EOF, no read waited past its
\* deadline and every write was taken
ReadToEnd == NoLate /\ ~peer.wfail /\ ~sst.open /\ sst.err = "io.EOF"

\* C31: when the sync Read calls have read the peer's frames up to io.EOF, the
\* frames written are one Pong per Ping with the payload of the Ping, nothing per
\* Pong, and one Close echo for the first Close, after which nothing more was
\* read; the messages returned are those of the data frames before it, control
\* frames in between leaving them as they are; for First, Ping, Middle, Pong,
\* Last one Pong is written and one Text message "Hello!" is returned
C31_SyncControlFrames ==
    ReadToEnd =>
        /\ sst.written = ControlReplies(UpToClose(peer.frames))
        /\ sst.ret = MessagesOf(UpToClose(peer.frames), None, <<>>)
        /\ BytesOf(fr.in) = WireOf(AfterClose(peer.frames))
        /\ peer.frames = fragmentedFrames =>
                /\ sst.written = <<pongFrame>>
                /\ sst.ret = <<[opcode |-> Text, payload |-> <<72, 101, 108, 108, 111, 33>>]>>

\* First, Ping, Middle, Pong, Last were read: one Pong, one message
C31_Witness ==
    /\ ReadToEnd
    /\ peer.frames = fragmentedFrames
    /\ sst.written = <<pongFrame>>
    /\ Len(sst.ret) = 1

\* a read waited past its deadline: the late byte of the peer has been waited for
DeadlineHit == ~NoLate /\ \A i \in 1..Len(fr.in) : ~fr.in[i].late

Pings(written) == {i \in 1..Len(written) : written[i] = pingFrame}

\* C32 as stated: when a read has hit the read deadline and the writes are
\* taken, one Ping was written for it, and Read has not returned an error for
\* it: io.EOF is returned only at the end of the peer's frames or at a Close
C32_DeadlineWritesPing ==
    (DeadlineHit /\ ~peer.wfail) =>
        /\ Cardinality(Pings(sst.written)) = 1
        /\ (~sst.open /\ sst.err = "io.EOF") => BytesOf(fr.in) = WireOf(AfterClose(peer.frames))

\* the payloads of the messages the Read calls returned
ReturnedPayloads == [i \in 1..Len(sst.ret) |-> sst.ret[i].payload]

\* both drivers are through with the peer's frames: the AsyncConn received them
\* in one call, and the Read calls went on until one returned an error
BothDone == peer.fed /\ ~sst.open /\ NoLate /\ ~peer.wfail

\* C33: for every sequence of frames without a Close frame, the AsyncConn that
\* received the frames in one call has emitted the payloads that the successive
\* sync Read calls returned, in the same order, and has sent the frames that the
\* Read calls wrote, in the same order; it failed with the error that ended the
\* sync reads, if that was not io.EOF at the end of the frames
C33_AsyncAsSync ==
    (BothDone /\ ~HasClose(peer.frames)) =>
        /\ ams.recvd = ReturnedPayloads
        /\ ams.sent = sst.written
        /\ ams.err = (IF sst.err = "io.EOF" THEN "nil" ELSE sst.err)

\* the fragmented message with a Ping and a Pong inside went through both
\* drivers: one message, one Pong each
C33_Witness ==
    /\ BothDone
    /\ peer.frames = fragmentedFrames
    /\ ams.recvd = <<<<72, 101, 108, 108, 111, 33>>>>
    /\ ReturnedPayloads = ams.recvd
    /\ ams.sent = <<pongFrame>>

\* C34: an encode that returns ErrInsufficientBuffer leaves head where it was;
\* while the error stands an encode writes nothing (buffer and tail stay);
\* reset puts tail back to head and clears the error, and nothing else clears
\* it; an encode that returns no error leaves head = tail, moved on by the
\* length of the event
C34_Step ==
    /\ (ew'.last = "encode" /\ ew'.err # "nil") => ew'.head = ew.head
    /\ (ew'.last = "encode" /\ ew.err # "nil") =>
            (ew'.buf = ew.buf /\ ew'.tail = ew.tail /\ ew'.err = ew.err)
    /\ (ew'.last = "reset") =>
            (ew'.tail = ew.head /\ ew'.head = ew.head /\ ew'.err = "nil" /\ ew'.buf = ew.buf)
    /\ (ew'.last = "encode" /\ ew'.err = "nil") =>
            (ew'.head = ew'.tail /\ ew.err = "nil" /\ ew'.head > ew.tail)
\* C34: every step of the event writer keeps the rules of C34_Step: a failed
\* encode leaves head, an error blocks writes until reset, a clean encode
\* leaves head = tail
C34_WriterTransactional == [][C34_Step]_vars

\* as in the test: an event was written, the next one did not fit and left tail
\* past head, with the error set
C34_Witness ==
    /\ ew.last = "encode"
    /\ ew.err = "ErrInsufficientBuffer"
    /\ ew.head = 24
    /\ ew.tail = 46

\* C35 as stated: once a Received call has failed and called Close on the TCP
\* connection, no later Received call emits a message upstream or hands a frame
\* to the TCP connection
C35_NothingAfterClose ==
    [][ac.closeCalls > 0 => (ac'.recvd = ac.recvd /\ ac'.sent = ac.sent)]_vars

\* C36 as stated: the operations reach the submission queue in the order of
\* their prepare calls (ids count the calls): the operations that ran are in
\* that order, and none of them is younger than an operation still in pending
C36_PrepareOrder ==
    /\ \A i, j \in 1..Len(rg.ran) : i < j => rg.ran[i].id < rg.ran[j].id
    /\ \A i \in 1..Len(rg.ran), j \in 1..Len(rg.pending) : rg.ran[i].id < rg.pending[j].id

\* C37 as stated, its safety half: runUntilDone does not return while an
\* operation is in pending
C37_NoReturnWithPending == rg.done => Len(rg.pending) = 0

\* C38: no connection ever has two multishot recvs armed; a bound connection
\* with no shutdown latched has exactly one; the handler of a completion with a
\* temporary errno prepares the recv once and leaves one armed, and so does the
\* handler of a chunk, which prepares it at most once
C38_OneRecvArmed ==
    /\ \A c \in ConnIds :
          /\ conn[c].recv <= 1
          /\ (conn[c].up # "nil" /\ conn[c].shutdownError = "nil") => conn[c].recv = 1
    /\ (hlog.c \in ConnIds /\ Len(hlog.ev) > 0) =>
          /\ (hlog.ev[1] = <<"cqe", "EAGAIN">>) =>
                (hlog.ev = <<<<"cqe", "EAGAIN">>, <<"prepare", "recv">>>>
                    /\ conn[hlog.c].recv = 1)
          /\ (hlog.ev[1] = <<"get">>) =>
                /\ Count(hlog.ev, <<"prepare", "recv">>) <= 1
                /\ conn[hlog.c].shutdownError = "nil" => conn[hlog.c].recv = 1

\* a recv completion with a temporary errno was handled: the recv was prepared
\* again and one is armed
C38_Witness ==
    /\ hlog.c \in ConnIds
    /\ hlog.ev = <<<<"cqe", "EAGAIN">>, <<"prepare", "recv">>>>
    /\ conn[hlog.c].recv = 1
    /\ conn[hlog.c].shutdownError = "nil"

\* C39 as stated: once the cancel completion of a listener that shuts its
\* children down has run, every connection in the listener's map has its
\* shutdown latched, whenever its accept completion was dispatched
C39_NoChildEscapes ==
    (lsn.cancel = "done" /\ lsn.shutdownConnections) =>
        \A c \in lsn.conns : conn[c].shutdownError # "nil"

\* C40 as stated: Closed is never called on a connection that has no upstream
C40_NoCallOnMissingUpstream ==
    \A c \in ConnIds : conn[c].up = "nil" => conn[c].closedCalls = 0

====
